---- MODULE Spec2Model ----
(***************************************************************************)
(* Provider orchestration and resilience layer of the fetcher service:     *)
(*   - BaseProvider.get_data, the fixed fetch pipeline of every provider   *)
(*     (fetcher/core/providers/base.py);                                   *)
(*   - ProviderManager, the registry that loads and indexes providers      *)
(*     (fetcher/core/providers/provider_manager.py).                       *)
(***************************************************************************)
EXTENDS Integers, Sequences, FiniteSets, TLC

\* ------------------------------------------------------------------ bounds
\* largest ProviderConfig.retries explored
MaxRetries == 2

\* the get_data calls issued on the one provider instance; they may overlap,
\* as coroutines of one event loop do
Calls == {"c1", "c2"}

\* Python's None
None == [kind |-> "None"]

\* -------------------------------------------------------------- parameters
\* keys a request parameter bag may carry
Fields == {"symbol", "start_date"}

\* a request parameter bag, reduced to the set of keys it carries
ParamBags == SUBSET Fields

\* YahooFinanceProvider.validate_request: all required fields are present
validate_request(params) == "symbol" \in params

\* exception classes fetch_data may raise
FetchErrors == {"TimeoutError", "ConnectionError", "PermissionError", "RuntimeError"}

\* what one awaited fetch_data does: returns, raises, or never completes
FetchOutcomes == {"ok", "never_completes"} \cup FetchErrors

\* 2 ** n
RECURSIVE Pow2(_)
Pow2(n) == IF n <= 0 THEN 1 ELSE 2 * Pow2(n - 1)

\* ------------------------------------------------------------------ state
VARIABLES
    config_retries,   \* self.config.retries
    rate_limiter,     \* self._rate_limiter is set (an object with acquire())
    cache,            \* self._cache is set
    call,             \* per get_data call: its position, locals and history
    configs,          \* ProviderManager._configs: provider_id -> ProviderConfig
    providers,        \* ProviderManager._providers: provider_id -> instance
    categories,       \* ProviderManager._categories: category -> provider ids
    lock,             \* ProviderManager._lock: the task holding it, or None
    instantiated,     \* per provider id, how often its class was instantiated
    task,             \* per initialize_all call: its position and locals
    manager_instance,     \* ProviderManager._instance
    manager_initialized,  \* ProviderManager._initialized
    handed_out,       \* what the ProviderManager() calls made so far returned
    registrations,    \* number of register_provider calls made from outside
    last_registered,  \* the latest register_provider call, while it stands
    closer,           \* the close_all call: its position and locals
    checker,          \* the health_check call: its position and locals
    metrics,          \* global_metrics, the process-wide ServiceMetrics
    request,          \* per inbound request: its position, status and result
    now,              \* int(time.time()), in seconds
    max_requests,     \* grpc_rate_limit: the max_requests it was built with
    request_counts,   \* grpc_rate_limit: calls counted per client and window
    limited,          \* the calls made on the rate-limited method, in order
    ttl_seconds,      \* grpc_cache_response: the ttl_seconds it was built with
    response_cache,   \* grpc_cache_response: cache, per key (result, time)
    cached_call,      \* per call on the cached method: its position and locals
    cached_calls_made, \* number of calls made on the cached method
    bulk,             \* the fetch_bulk_data or fetch_multiple call: its locals
    semaphore,        \* asyncio.Semaphore(max_concurrent): its free slots
    fetches,          \* per request of the bulk call: where its fetch stands
    micro,            \* the FetcherMicroService: its position and flags
    provider_config,  \* a ProviderConfig(...) call: its arguments and outcome
    data_quality,     \* a DataQuality and its overall_score once read
    page_info,        \* a build_page_info call: its arguments and result
    api_session,      \* APIClient.session is set
    api_rate_limiter, \* APIClient.rate_limiter: domain -> timestamps
    api_call,         \* per APIClient.fetch call: its position and locals
    sent,             \* the HTTP requests sent, in order
    loop_time         \* asyncio.get_event_loop().time(), in seconds

provider_vars == <<config_retries, rate_limiter, cache, call>>

manager_vars == <<configs, providers, categories, lock, instantiated, task>>

registry_vars == <<manager_instance, manager_initialized, handed_out,
                   registrations, last_registered, closer, checker>>

middleware_vars == <<metrics, request>>

limiter_vars == <<now, max_requests, request_counts, limited>>

cache_vars == <<ttl_seconds, response_cache, cached_call, cached_calls_made>>

bulk_vars == <<bulk, semaphore, fetches>>

micro_vars == <<micro>>

value_vars == <<provider_config, data_quality, page_info>>

api_vars == <<api_session, api_rate_limiter, api_call, sent, loop_time>>

service_vars ==
    <<limiter_vars, cache_vars, bulk_vars, micro_vars, value_vars, api_vars>>

\* everything but the state of the rate limiter
beside_limiter ==
    <<provider_vars, manager_vars, registry_vars, middleware_vars, cache_vars,
      bulk_vars, micro_vars, value_vars, api_vars>>

\* everything but the state of the response cache
beside_cache ==
    <<provider_vars, manager_vars, registry_vars, middleware_vars,
      max_requests, request_counts, limited, bulk_vars, micro_vars,
      value_vars, api_vars>>

\* everything but the state of the bulk fetch
beside_bulk ==
    <<provider_vars, manager_vars, registry_vars, middleware_vars,
      limiter_vars, cache_vars, micro_vars, value_vars, api_vars>>

\* everything but the state of the FetcherMicroService
beside_micro ==
    <<provider_vars, manager_vars, registry_vars, middleware_vars,
      limiter_vars, cache_vars, bulk_vars, value_vars, api_vars>>

\* everything but the values built by the pure functions
beside_values ==
    <<provider_vars, manager_vars, registry_vars, middleware_vars,
      limiter_vars, cache_vars, bulk_vars, micro_vars, api_vars>>

\* everything but the state of the APIClient
beside_api ==
    <<provider_vars, manager_vars, registry_vars, middleware_vars,
      limiter_vars, cache_vars, bulk_vars, micro_vars, value_vars>>

vars == <<config_retries, rate_limiter, cache, call,
          configs, providers, categories, lock, instantiated, task,
          manager_instance, manager_initialized, handed_out,
          registrations, last_registered, closer, checker,
          metrics, request,
          now, max_requests, request_counts, limited,
          ttl_seconds, response_cache, cached_call, cached_calls_made,
          bulk, semaphore, fetches, micro,
          provider_config, data_quality, page_info,
          api_session, api_rate_limiter, api_call, sent, loop_time>>

\* an exception object: its class, the step that raised it, and for
\* fetch_data the call and attempt that raised it (its identity)
Exc(kind, origin, c, attempt) ==
    [kind |-> kind, origin |-> origin, call |-> c, attempt |-> attempt]

\* a get_data call that has not started
IdleCall ==
    [pc |-> "idle", params |-> {}, attempt |-> 0, last_exception |-> None,
     raw_data |-> None, normalized_data |-> None, quality |-> None,
     result |-> None, raised |-> None,
     trace |-> <<>>, sleeps |-> <<>>, fetches |-> 0, permits |-> 0,
     fetch_raised |-> None, stage_error |-> None, prior |-> {}]

\* BaseProvider.__init__: no rate limiter and no cache are installed by the
\* base class; a deployment may attach either to the attribute
ProviderInit ==
    /\ config_retries \in 0..MaxRetries
    /\ rate_limiter \in BOOLEAN
    /\ cache \in BOOLEAN
    /\ call = [c \in Calls |-> IdleCall]

\* calls that have returned a response for the given parameters
ReturnedWith(params) ==
    {d \in Calls : call[d].pc = "returned" /\ call[d].params = params}

\* get_data's except clause: log and re-raise the exception untouched
Raise(c, rec, e) ==
    call' = [call EXCEPT ![c] = [rec EXCEPT !.pc = "raised", !.raised = e]]

\* ------------------------------------------------------------ get_data
\* _get_cached_data: no cache handle, or the lookup that is not implemented
get_cached_data(cache_handle, params) ==
    IF ~cache_handle THEN None ELSE None

\* get_data entry with the result of validate_request ignored
GetDataValidate_unchecked(c, params) ==
    /\ call[c].pc = "idle"
    /\ call' = [call EXCEPT ![c] =
                   [@ EXCEPT !.params = params,
                             !.prior = {d \in Calls : call[d].pc = "returned"
                                                      /\ call[d].params = params},
                             !.trace = Append(@, "validate_request"),
                             !.pc = "cache_lookup"]]
    /\ UNCHANGED <<config_retries, rate_limiter, cache>>
    /\ UNCHANGED <<manager_vars, registry_vars, middleware_vars, service_vars>>

\* get_data entry: request id, then validate_request; false raises ValueError
GetDataValidate(c, params) ==
    /\ call[c].pc = "idle"
    /\ LET rec == [call[c] EXCEPT !.params = params,
                                  !.prior = ReturnedWith(params),
                                  !.trace = Append(@, "validate_request")]
       IN IF ~validate_request(params)
          THEN Raise(c, rec, Exc("ValueError", "validate_request", c, 0))
          ELSE call' = [call EXCEPT ![c] = [rec EXCEPT !.pc = "cache_lookup"]]
    /\ UNCHANGED <<config_retries, rate_limiter, cache>>
    /\ UNCHANGED <<manager_vars, registry_vars, middleware_vars, service_vars>>

\* get_data: cache lookup; a hit returns the cached response at once
GetCachedData(c) ==
    /\ call[c].pc = "cache_lookup"
    /\ LET cached == get_cached_data(cache, call[c].params)
           rec == [call[c] EXCEPT !.trace = Append(@, "cache_lookup")]
       IN IF cached # None
          THEN call' = [call EXCEPT ![c] =
                           [rec EXCEPT !.pc = "returned", !.result = cached]]
          ELSE call' = [call EXCEPT ![c] = [rec EXCEPT !.pc = "rate_limit"]]
    /\ UNCHANGED <<config_retries, rate_limiter, cache>>
    /\ UNCHANGED <<manager_vars, registry_vars, middleware_vars, service_vars>>

\* _check_rate_limit: acquire a permit when a rate limiter is installed
CheckRateLimit(c) ==
    /\ call[c].pc = "rate_limit"
    /\ call' = [call EXCEPT ![c] =
                   [@ EXCEPT !.pc = "fetch",
                             !.attempt = 0,
                             !.last_exception = None,
                             !.permits = IF rate_limiter THEN @ + 1 ELSE @,
                             !.trace = Append(@, "rate_limit")]]
    /\ UNCHANGED <<config_retries, rate_limiter, cache>>
    /\ UNCHANGED <<manager_vars, registry_vars, middleware_vars, service_vars>>

\* the first exception is kept instead of the latest
remember_exception_first(last_exception, e) ==
    IF last_exception = None THEN e ELSE last_exception

\* _fetch_with_retry: the exception remembered after an attempt failed
remember_exception(last_exception, e) == e

\* only transient failures are retried
retry_again_transient(attempt, retries, e) ==
    attempt < retries /\ e.kind \in {"TimeoutError", "ConnectionError"}

\* _fetch_with_retry: whether a failed attempt is followed by another one
retry_again(attempt, retries, e) == attempt < retries

\* linear instead of exponential backoff
wait_time_linear(attempt) == 2 * attempt

\* _fetch_with_retry: the backoff before the next attempt
wait_time(attempt) == Pow2(attempt)

\* _fetch_with_retry: one pass of the loop body, awaiting fetch_data
FetchData(c, outcome) ==
    /\ call[c].pc = "fetch"
    /\ LET rec == [call[c] EXCEPT !.fetches = @ + 1,
                                  !.trace = Append(@, "fetch_data")]
           e == Exc(outcome, "fetch_data", c, call[c].attempt)
           failed == [rec EXCEPT
                        !.last_exception = remember_exception(@, e),
                        !.fetch_raised = e]
       IN CASE outcome = "ok" ->
                 call' = [call EXCEPT ![c] =
                    [rec EXCEPT !.pc = "normalize",
                                !.last_exception = None,
                                !.raw_data = [call |-> c, attempt |-> rec.attempt]]]
            [] outcome = "never_completes" ->
                 call' = [call EXCEPT ![c] = [rec EXCEPT !.pc = "fetching"]]
            [] OTHER ->
                 IF retry_again(rec.attempt, config_retries, e)
                 THEN call' = [call EXCEPT ![c] = [failed EXCEPT !.pc = "backoff"]]
                 ELSE Raise(c, failed, failed.last_exception)
    /\ UNCHANGED <<config_retries, rate_limiter, cache>>
    /\ UNCHANGED <<manager_vars, registry_vars, middleware_vars, service_vars>>

\* one attempt counter shared by the calls on the instance: a sleep ending
\* in one call moves every call in the retry loop to its next attempt
BackoffSleep_shared(c) ==
    /\ call[c].pc = "backoff"
    /\ call' = [d \in Calls |->
                   IF d = c
                   THEN [call[d] EXCEPT
                           !.pc = "fetch",
                           !.sleeps = Append(@, wait_time(call[c].attempt)),
                           !.attempt = @ + 1,
                           !.trace = Append(@, "sleep")]
                   ELSE IF call[d].pc \in {"fetch", "backoff"}
                        THEN [call[d] EXCEPT !.attempt = @ + 1]
                        ELSE call[d]]
    /\ UNCHANGED <<config_retries, rate_limiter, cache>>
    /\ UNCHANGED <<manager_vars, registry_vars, middleware_vars, service_vars>>

\* _fetch_with_retry: asyncio.sleep(wait_time), then the next attempt
BackoffSleep(c) ==
    /\ call[c].pc = "backoff"
    /\ call' = [call EXCEPT ![c] =
                   [@ EXCEPT !.pc = "fetch",
                             !.sleeps = Append(@, wait_time(call[c].attempt)),
                             !.attempt = @ + 1,
                             !.trace = Append(@, "sleep")]]
    /\ UNCHANGED <<config_retries, rate_limiter, cache>>
    /\ UNCHANGED <<manager_vars, registry_vars, middleware_vars, service_vars>>

\* a normalize_data failure sent back into the retry loop
NormalizeData_retried(c, ok) ==
    /\ call[c].pc = "normalize"
    /\ LET e == Exc("ValueError", "normalize_data", c, 0)
           rec == [call[c] EXCEPT !.trace = Append(@, "normalize_data"),
                                  !.stage_error = IF ok THEN @ ELSE e]
       IN IF ok
          THEN call' = [call EXCEPT ![c] =
                  [rec EXCEPT !.pc = "assess",
                              !.normalized_data = [normalized |-> rec.raw_data]]]
          ELSE IF rec.attempt < config_retries
               THEN call' = [call EXCEPT ![c] = [rec EXCEPT !.pc = "backoff"]]
               ELSE call' = [call EXCEPT ![c] =
                               [rec EXCEPT !.pc = "raised", !.raised = e]]
    /\ UNCHANGED <<config_retries, rate_limiter, cache>>
    /\ UNCHANGED <<manager_vars, registry_vars, middleware_vars, service_vars>>

\* get_data: normalize_data(raw_data), which may raise
NormalizeData(c, ok) ==
    /\ call[c].pc = "normalize"
    /\ LET e == Exc("ValueError", "normalize_data", c, 0)
           rec == [call[c] EXCEPT !.trace = Append(@, "normalize_data"),
                                  !.stage_error = IF ok THEN @ ELSE e]
       IN IF ok
          THEN call' = [call EXCEPT ![c] =
                  [rec EXCEPT !.pc = "assess",
                              !.normalized_data = [normalized |-> rec.raw_data]]]
          ELSE Raise(c, rec, e)
    /\ UNCHANGED <<config_retries, rate_limiter, cache>>
    /\ UNCHANGED <<manager_vars, registry_vars, middleware_vars, service_vars>>

\* get_data: assess_data_quality(normalized_data), which may raise
AssessDataQuality(c, ok) ==
    /\ call[c].pc = "assess"
    /\ LET e == Exc("Exception", "assess_data_quality", c, 0)
           rec == [call[c] EXCEPT !.trace = Append(@, "assess_data_quality"),
                                  !.stage_error = IF ok THEN @ ELSE e]
       IN IF ok
          THEN call' = [call EXCEPT ![c] =
                  [rec EXCEPT !.pc = "cache_store",
                              !.quality = [of |-> rec.normalized_data]]]
          ELSE Raise(c, rec, e)
    /\ UNCHANGED <<config_retries, rate_limiter, cache>>
    /\ UNCHANGED <<manager_vars, registry_vars, middleware_vars, service_vars>>

\* get_data: build the ProviderResponse, _cache_data (which stores
\* nothing: its body is empty), return the response
CacheData(c) ==
    /\ call[c].pc = "cache_store"
    /\ call' = [call EXCEPT ![c] =
                   [@ EXCEPT !.pc = "returned",
                             !.result = [data |-> call[c].normalized_data,
                                         request_id |-> c,
                                         data_quality |-> call[c].quality],
                             !.trace = Append(@, "cache_store")]]
    /\ UNCHANGED <<config_retries, rate_limiter, cache>>
    /\ UNCHANGED <<manager_vars, registry_vars, middleware_vars, service_vars>>

ProviderNext ==
    \/ \E c \in Calls, params \in ParamBags : GetDataValidate(c, params)
    \/ \E c \in Calls : GetCachedData(c)
    \/ \E c \in Calls : CheckRateLimit(c)
    \/ \E c \in Calls, outcome \in FetchOutcomes : FetchData(c, outcome)
    \/ \E c \in Calls : BackoffSleep(c)
    \/ \E c \in Calls, ok \in BOOLEAN : NormalizeData(c, ok)
    \/ \E c \in Calls, ok \in BOOLEAN : AssessDataQuality(c, ok)
    \/ \E c \in Calls : CacheData(c)

\* every step of a started call is eventually taken: the event loop runs
\* each coroutine that is ready
CallStep(c) ==
    \/ GetCachedData(c)
    \/ CheckRateLimit(c)
    \/ \E outcome \in FetchOutcomes : FetchData(c, outcome)
    \/ BackoffSleep(c)
    \/ \E ok \in BOOLEAN : NormalizeData(c, ok)
    \/ \E ok \in BOOLEAN : AssessDataQuality(c, ok)
    \/ CacheData(c)

\* ------------------------------------------------------------ properties
\* the last step a call has taken
LastStep(c) == call[c].trace[Len(call[c].trace)]

\* the call has left the retry loop
LeftRetryLoop(c) ==
    call[c].fetches > 0 /\ call[c].pc \notin {"fetch", "backoff", "fetching"}

\* C1: a get_data call whose parameters validate_request rejects has raised
\* the validation error as its only step: no fetch_data invocation, no
\* rate-limit permit, no backoff sleep.
C1_InvalidRequestFailsFast ==
    \A c \in Calls :
        (call[c].pc # "idle" /\ ~validate_request(call[c].params)) =>
            /\ call[c].pc = "raised"
            /\ call[c].raised = Exc("ValueError", "validate_request", c, 0)
            /\ call[c].trace = <<"validate_request">>
            /\ call[c].fetches = 0
            /\ call[c].permits = 0
            /\ call[c].sleeps = <<>>

\* a rejected call has raised while the other call of a provider with a rate
\* limiter went on to fetch
C1_Witness ==
    \E c, d \in Calls :
        /\ call[c].pc = "raised" /\ ~validate_request(call[c].params)
        /\ rate_limiter /\ call[d].fetches > 0 /\ call[d].permits = 1

\* C2: when every fetch_data attempt of a call failed, fetch_data was invoked
\* retries + 1 times, the last step was a fetch attempt and not a sleep, and
\* get_data raised the exception of the last attempt.
C2_ExhaustedRaisesLast ==
    \A c \in Calls :
        (LeftRetryLoop(c) /\ call[c].raw_data = None) =>
            /\ call[c].pc = "raised"
            /\ call[c].fetches = config_retries + 1
            /\ Len(call[c].sleeps) = config_retries
            /\ LastStep(c) = "fetch_data"
            /\ call[c].raised = call[c].fetch_raised
            /\ call[c].raised.origin = "fetch_data"
            /\ call[c].raised.call = c
            /\ call[c].raised.attempt = config_retries

\* three attempts failed with retries = 2 and the error raised is the third
C2_Witness ==
    \E c \in Calls :
        /\ config_retries = 2
        /\ call[c].pc = "raised"
        /\ call[c].fetches = 3
        /\ call[c].raised.origin = "fetch_data"
        /\ call[c].raised.attempt = 2

\* C3: when attempt k+1 is the first to succeed, fetch_data was invoked k+1
\* times with k <= retries, the sleeps were 2^0 .. 2^(k-1) in order, the call
\* does not fail in the fetch stage, and the response returned is built from
\* the result of that attempt.
C3_SuccessAfterFailures ==
    \A c \in Calls :
        call[c].raw_data # None =>
            LET k == call[c].raw_data.attempt
            IN /\ k <= config_retries
               /\ call[c].raw_data.call = c
               /\ call[c].fetches = k + 1
               /\ call[c].sleeps = [i \in 1..k |-> 2^(i - 1)]
               /\ call[c].pc \in {"normalize", "assess", "cache_store",
                                  "returned", "raised"}
               /\ call[c].pc = "raised" => call[c].raised.origin # "fetch_data"
               /\ call[c].pc = "returned" =>
                     call[c].result.data = [normalized |-> call[c].raw_data]

\* two failures, then a success, and the response has been returned
C3_Witness ==
    \E c \in Calls :
        /\ call[c].pc = "returned"
        /\ call[c].raw_data.attempt = 2
        /\ call[c].sleeps = <<1, 2>>

\* C4: a call that starts after a call with the same parameters has returned
\* a response invokes fetch_data zero times, acquires no permit and returns
\* the response of the earlier call.
C4_SecondCallServedFromCache ==
    \A c \in Calls :
        call[c].prior # {} =>
            /\ call[c].fetches = 0
            /\ call[c].permits = 0
            /\ call[c].pc \in {"cache_lookup", "returned"}
            /\ call[c].pc = "returned" =>
                  \E d \in call[c].prior : call[c].result = call[d].result

\* C5: when normalize_data or assess_data_quality raised, get_data has
\* raised that very error as its next step: no fetch attempt, no sleep and
\* no cache store came after the successful fetch.
C5_StageErrorNotRetried ==
    \A c \in Calls :
        call[c].stage_error # None =>
            /\ call[c].pc = "raised"
            /\ call[c].raised = call[c].stage_error
            /\ LastStep(c) = call[c].stage_error.origin
            /\ call[c].fetches = call[c].raw_data.attempt + 1
            /\ Len(call[c].sleeps) = call[c].raw_data.attempt
            /\ \A i \in 1..Len(call[c].trace) : call[c].trace[i] # "cache_store"

\* normalize_data raised after a fetch that succeeded at its first attempt
\* although retries were left
C5_Witness ==
    \E c \in Calls :
        /\ config_retries > 0
        /\ call[c].stage_error # None
        /\ call[c].stage_error.origin = "normalize_data"
        /\ call[c].fetches = 1
        /\ call[c].pc = "raised"

\* exception classes of authorization and of internal failures
NonTransient == {"PermissionError", "RuntimeError"}

\* the latest fetch attempt of the call failed and nothing followed it yet
LastAttemptFailed(c) ==
    /\ call[c].fetch_raised # None
    /\ call[c].pc \in {"backoff", "raised"}
    /\ LastStep(c) = "fetch_data"

\* C6 as stated: an authorization or internal error of fetch_data ends the
\* call at once with that error, whatever retries are left.
C6_NonTransientNotRetried ==
    \A c \in Calls :
        (LastAttemptFailed(c) /\ call[c].fetch_raised.kind \in NonTransient) =>
            /\ call[c].pc = "raised"
            /\ call[c].raised = call[c].fetch_raised

\* C6 amended: a failed attempt is followed by a backoff and another attempt
\* exactly when attempts are left, whatever the class of the exception; an
\* error is propagated only from the last allowed attempt.
C6_EveryErrorKindRetried ==
    \A c \in Calls :
        LastAttemptFailed(c) =>
            /\ call[c].pc = "backoff" <=> call[c].fetch_raised.attempt < config_retries
            /\ call[c].pc = "raised" <=> call[c].fetch_raised.attempt = config_retries

\* an authorization error is about to be retried
C6_Witness ==
    \E c \in Calls :
        /\ call[c].pc = "backoff"
        /\ call[c].fetch_raised.kind = "PermissionError"
        /\ call[c].fetch_raised.attempt = 0

\* the step that may directly follow a step of the pipeline
Follows(a, b) ==
    \/ a = "validate_request" /\ b = "cache_lookup"
    \/ a = "cache_lookup" /\ b = "rate_limit"
    \/ a = "rate_limit" /\ b = "fetch_data"
    \/ a = "fetch_data" /\ b \in {"sleep", "normalize_data"}
    \/ a = "sleep" /\ b = "fetch_data"
    \/ a = "normalize_data" /\ b = "assess_data_quality"
    \/ a = "assess_data_quality" /\ b = "cache_store"

\* the steps of every call follow one another in the pipeline's order, and a
\* returning call ends with the cache store
StepsInOrder ==
    \A c \in Calls :
        LET tr == call[c].trace
        IN /\ tr # <<>> => tr[1] = "validate_request"
           /\ \A i \in 1..(Len(tr) - 1) : Follows(tr[i], tr[i + 1])
           /\ call[c].pc = "returned" => tr[Len(tr)] = "cache_store"

\* C7: the steps of a call happen in the pipeline's order, and a call that
\* has reached its fetch attempts holds exactly one rate-limit permit,
\* however many attempts it makes.
C7_OrderedWithOnePermit ==
    /\ StepsInOrder
    /\ \A c \in Calls : call[c].fetches > 0 => call[c].permits = 1

\* C8: every get_data call that has started returns or raises.
C8_EveryCallTerminates ==
    \A c \in Calls :
        (call[c].pc # "idle") ~> (call[c].pc \in {"returned", "raised"})

\* ------------------------------------------------------ ProviderManager
\* largest ProviderConfig.priority explored
MaxPriority == 2

\* the initialize_all calls made on the manager; they may overlap
Tasks == {"t1", "t2"}

\* the first default providers, in the order _setup_default_providers
\* inserts them into _configs
ProviderIds == <<"yahoo_finance", "akshare", "alpha_vantage">>

IdSet == {ProviderIds[i] : i \in 1..Len(ProviderIds)}

\* an id registered from outside that has no entry in _configs
\* (tests/test_optimizations.py registers "test_provider")
AllIds == IdSet \cup {"test_provider"}

\* supported_categories of the default configs
DefaultCategories ==
    [id \in IdSet |->
        CASE id = "yahoo_finance" -> <<"equity", "crypto", "forex">>
          [] id = "akshare"       -> <<"equity", "news", "macro">>
          [] OTHER                -> <<"equity", "forex", "crypto">>]

\* the DataCategory members the default configs use
Categories == {"equity", "crypto", "forex", "news", "macro"}

\* ProviderConfig.is_available
is_available(config) == config.enabled

\* an initialize_all call that has not started
IdleTask ==
    [pc |-> "idle", sorted_configs |-> <<>>, idx |-> 1, provider |-> None,
     success_count |-> 0, skipped |-> FALSE, loaded |-> {}, failed |-> {},
     instantiations |-> 0, attempted |-> <<>>]

\* ProviderManager.__init__: empty registry, free lock, the known configs;
\* enabled and priority are configuration data
ManagerInit ==
    /\ configs \in [IdSet -> [enabled : BOOLEAN, priority : 1..MaxPriority]]
    /\ providers = [id \in AllIds |-> None]
    /\ categories = [cat \in Categories |-> <<>>]
    /\ lock = None
    /\ instantiated = [id \in IdSet |-> 0]
    /\ task = [t \in Tasks |-> IdleTask]

\* sorted(..., key=priority): stable insertion of one id
RECURSIVE InsertByPriority(_, _, _)
InsertByPriority(s, id, cfg) ==
    IF s = <<>> THEN <<id>>
    ELSE IF cfg[Head(s)].priority <= cfg[id].priority
         THEN <<Head(s)>> \o InsertByPriority(Tail(s), id, cfg)
         ELSE <<id>> \o s

\* the configs taken in the order _configs holds them
SortedByPriority_unsorted(s, cfg) == s

\* sorted(..., key=lambda x: x.priority)
RECURSIVE SortedByPriority(_, _)
SortedByPriority(s, cfg) ==
    IF s = <<>> THEN <<>>
    ELSE InsertByPriority(SortedByPriority(SubSeq(s, 1, Len(s) - 1), cfg),
                          s[Len(s)], cfg)

\* [config for config in self._configs.values() if config.enabled]
EnabledIds(cfg) == SelectSeq(ProviderIds, LAMBDA id : cfg[id].enabled)

\* the ids a provider map holds
Registered(provs) == {id \in AllIds : provs[id] # None}

\* register_provider without the check that the list lacks the id
RegisterCategories_appending(index, id, cats) ==
    [cat \in Categories |->
        IF \E i \in 1..Len(cats) : cats[i] = cat
        THEN Append(index[cat], id)
        ELSE index[cat]]

\* register_provider, the index part: append the id to each category list
\* that does not hold it yet
RegisterCategories(index, id, cats) ==
    [cat \in Categories |->
        IF (\E i \in 1..Len(cats) : cats[i] = cat)
           /\ ~(\E j \in 1..Len(index[cat]) : index[cat][j] = id)
        THEN Append(index[cat], id)
        ELSE index[cat]]

\* initialize_all: move on to the next config, or finish after the last
NextConfig(rec) ==
    [rec EXCEPT !.idx = @ + 1,
                !.provider = None,
                !.pc = IF rec.idx + 1 > Len(rec.sorted_configs)
                       THEN "done" ELSE "loop"]

\* initialize_all without the check for an initialized registry
InitializeAll_unguarded(t) ==
    /\ task[t].pc = "idle"
    /\ LET sorted == SortedByPriority(EnabledIds(configs), configs)
       IN task' = [task EXCEPT ![t] =
                     [@ EXCEPT !.sorted_configs = sorted,
                               !.pc = IF sorted = <<>> THEN "done" ELSE "loop"]]
    /\ UNCHANGED <<configs, providers, categories, lock, instantiated>>
    /\ UNCHANGED <<provider_vars, registry_vars, middleware_vars, service_vars>>

\* initialize_all entry: skip when providers is non-empty, else sort the
\* enabled configs by priority
InitializeAll(t) ==
    /\ task[t].pc = "idle"
    /\ IF Registered(providers) # {}
       THEN task' = [task EXCEPT ![t] = [@ EXCEPT !.pc = "done", !.skipped = TRUE]]
       ELSE LET sorted == SortedByPriority(EnabledIds(configs), configs)
            IN task' = [task EXCEPT ![t] =
                          [@ EXCEPT !.sorted_configs = sorted,
                                    !.pc = IF sorted = <<>> THEN "done" ELSE "loop"]]
    /\ UNCHANGED <<configs, providers, categories, lock, instantiated>>
    /\ UNCHANGED <<provider_vars, registry_vars, middleware_vars, service_vars>>

\* what _load_provider can meet before the initialize() hook
LoadOutcomes ==
    {"ImportError", "AttributeError", "TypeError", "Exception",
     "instance", "instance_without_hook"}

\* a load failure that ends initialize_all instead of being skipped
LoadProvider_aborting(t, outcome) ==
    /\ task[t].pc = "loop"
    /\ LET id == task[t].sorted_configs[task[t].idx]
           constructed == outcome \in {"TypeError", "Exception", "instance",
                                       "instance_without_hook"}
           n == instantiated[id] + 1
           rec == [task[t] EXCEPT
                     !.instantiations = IF constructed THEN @ + 1 ELSE @,
                     !.attempted = Append(@, id)]
       IN /\ instantiated' = IF constructed /\ is_available(configs[id])
                             THEN [instantiated EXCEPT ![id] = n]
                             ELSE instantiated
          /\ IF ~is_available(configs[id])
             THEN task' = [task EXCEPT ![t] =
                             NextConfig([task[t] EXCEPT !.attempted = Append(@, id)])]
             ELSE CASE outcome = "instance" ->
                         task' = [task EXCEPT ![t] =
                            [rec EXCEPT !.pc = "initializing",
                                        !.provider = [id |-> id, n |-> n]]]
                    [] outcome = "instance_without_hook" ->
                         task' = [task EXCEPT ![t] =
                            [rec EXCEPT !.pc = "register",
                                        !.loaded = @ \cup {id},
                                        !.provider = [id |-> id, n |-> n]]]
                    [] OTHER ->
                         task' = [task EXCEPT ![t] =
                            [rec EXCEPT !.failed = @ \cup {id}, !.pc = "raised"]]
    /\ UNCHANGED <<configs, providers, categories, lock>>
    /\ UNCHANGED <<provider_vars, registry_vars, middleware_vars, service_vars>>

\* _load_provider up to the initialize() hook: import the module, look up
\* the class, instantiate it; every Exception is logged and None returned,
\* which initialize_all logs before it goes on
LoadProvider(t, outcome) ==
    /\ task[t].pc = "loop"
    /\ LET id == task[t].sorted_configs[task[t].idx]
           constructed == outcome \in {"TypeError", "Exception", "instance",
                                       "instance_without_hook"}
           n == instantiated[id] + 1
           rec == [task[t] EXCEPT
                     !.instantiations = IF constructed THEN @ + 1 ELSE @,
                     !.attempted = Append(@, id)]
       IN /\ instantiated' = IF constructed /\ is_available(configs[id])
                             THEN [instantiated EXCEPT ![id] = n]
                             ELSE instantiated
          /\ IF ~is_available(configs[id])
             THEN task' = [task EXCEPT ![t] =
                             NextConfig([task[t] EXCEPT !.attempted = Append(@, id)])]
             ELSE CASE outcome = "instance" ->
                         task' = [task EXCEPT ![t] =
                            [rec EXCEPT !.pc = "initializing",
                                        !.provider = [id |-> id, n |-> n]]]
                    [] outcome = "instance_without_hook" ->
                         task' = [task EXCEPT ![t] =
                            [rec EXCEPT !.pc = "register",
                                        !.loaded = @ \cup {id},
                                        !.provider = [id |-> id, n |-> n]]]
                    [] OTHER ->
                         task' = [task EXCEPT ![t] =
                            NextConfig([rec EXCEPT !.failed = @ \cup {id}])]
    /\ UNCHANGED <<configs, providers, categories, lock>>
    /\ UNCHANGED <<provider_vars, registry_vars, middleware_vars, service_vars>>

\* _load_provider: await provider.initialize(); a raising hook is logged
\* and None returned
InitializeHook(t, ok) ==
    /\ task[t].pc = "initializing"
    /\ LET id == task[t].sorted_configs[task[t].idx]
       IN IF ok
          THEN task' = [task EXCEPT ![t] =
                          [@ EXCEPT !.pc = "register", !.loaded = @ \cup {id}]]
          ELSE task' = [task EXCEPT ![t] =
                           NextConfig([task[t] EXCEPT !.failed = @ \cup {id}])]
    /\ UNCHANGED <<configs, providers, categories, lock, instantiated>>
    /\ UNCHANGED <<provider_vars, registry_vars, middleware_vars, service_vars>>

\* initialize_all: await register_provider(id, provider, supported_categories),
\* whose body runs under the lock without suspending
RegisterLoaded(t) ==
    /\ task[t].pc = "register"
    /\ lock = None
    /\ LET id == task[t].sorted_configs[task[t].idx]
       IN /\ providers' = [providers EXCEPT ![id] = task[t].provider]
          /\ categories' = RegisterCategories(categories, id, DefaultCategories[id])
          /\ task' = [task EXCEPT ![t] =
                        NextConfig([task[t] EXCEPT !.success_count = @ + 1])]
    /\ UNCHANGED <<configs, lock, instantiated>>
    /\ UNCHANGED <<provider_vars, registry_vars, middleware_vars, service_vars>>

\* get_provider
get_provider(id) == providers[id]

ManagerNext ==
    \/ \E t \in Tasks : InitializeAll(t)
    \/ \E t \in Tasks, outcome \in LoadOutcomes : LoadProvider(t, outcome)
    \/ \E t \in Tasks, ok \in BOOLEAN : InitializeHook(t, ok)
    \/ \E t \in Tasks : RegisterLoaded(t)

\* the provider of the get_data calls stands alone; the manager is at rest
ManagerAtRest ==
    /\ configs = [id \in IdSet |-> [enabled |-> TRUE, priority |-> 1]]
    /\ providers = [id \in AllIds |-> None]
    /\ categories = [cat \in Categories |-> <<>>]
    /\ lock = None
    /\ instantiated = [id \in IdSet |-> 0]
    /\ task = [t \in Tasks |-> IdleTask]

\* the manager works; no get_data call is under way
ProviderAtRest ==
    /\ config_retries = 0
    /\ rate_limiter = FALSE
    /\ cache = FALSE
    /\ call = [c \in Calls |-> IdleCall]

\* the call is inside the retry loop of _fetch_with_retry
InRetryLoop(c) == call[c].pc \in {"fetch", "backoff", "fetching"}

\* C34: the retry state is per call. Of get_data calls running concurrently
\* on one provider instance each has its own budget of retries + 1 attempts
\* and its own last error: a call never makes more than retries + 1
\* attempts, a call whose attempts all failed made exactly retries + 1 of
\* them whatever the other call did, the error it remembers and the error it
\* raises come from its own latest attempt, and an attempt of one call
\* leaves the other call's state as it was.
C34_RetryStatePerCall ==
    \A c \in Calls :
        /\ call[c].fetches <= config_retries + 1
        /\ InRetryLoop(c) => call[c].fetches \in {call[c].attempt, call[c].attempt + 1}
        /\ call[c].last_exception # None =>
              /\ call[c].last_exception.call = c
              /\ call[c].last_exception = call[c].fetch_raised
        /\ (LeftRetryLoop(c) /\ call[c].raw_data = None) =>
              /\ call[c].fetches = config_retries + 1
              /\ call[c].raised.call = c
              /\ call[c].raised.attempt = config_retries
              /\ call[c].raised = call[c].fetch_raised

\* one call used up its three attempts and raised its TimeoutError while the
\* other call, after one failed attempt with another error, is still in its
\* first backoff
C34_Witness ==
    \E c, d \in Calls :
        /\ c # d
        /\ config_retries = 2
        /\ call[c].pc = "raised"
        /\ call[c].fetches = 3
        /\ call[c].raised.kind = "TimeoutError"
        /\ call[d].pc = "backoff"
        /\ call[d].fetches = 1
        /\ call[d].last_exception.kind = "ConnectionError"

\* ------------------------------------------------- properties, manager
\* C9: initialize_all never raises, and when a call that was not skipped
\* has finished, every enabled config was attempted (it loaded or its load
\* failed) and get_provider returns an instance of every id the call loaded.
C9_LoadFailuresIsolated ==
    \A t \in Tasks :
        /\ task[t].pc # "raised"
        /\ (task[t].pc = "done" /\ ~task[t].skipped) =>
              /\ task[t].loaded \cup task[t].failed =
                    {id \in IdSet : configs[id].enabled}
              /\ task[t].loaded \cap task[t].failed = {}
              /\ \A id \in task[t].loaded :
                    /\ get_provider(id) # None
                    /\ get_provider(id).id = id

\* three enabled configs, the second in priority order failed to load, the
\* first and the third are registered
C9_Witness ==
    \E t \in Tasks :
        /\ task[t].pc = "done"
        /\ Len(task[t].sorted_configs) = 3
        /\ task[t].failed = {task[t].sorted_configs[2]}
        /\ get_provider(task[t].sorted_configs[1]) # None
        /\ get_provider(task[t].sorted_configs[3]) # None
        /\ get_provider(task[t].sorted_configs[2]) = None

\* C10: an initialize_all call that starts while providers is non-empty
\* finishes in that step with providers, the category index, configs and
\* the instantiation counts unchanged, and takes no step afterwards.
C10_InitializeAllIdempotent ==
    [][\A t \in Tasks :
          /\ (task[t].pc = "idle" /\ task'[t] # task[t]
                /\ Registered(providers) # {}) =>
                /\ task'[t].pc = "done"
                /\ task'[t].skipped
                /\ task'[t].instantiations = 0
                /\ UNCHANGED <<providers, categories, configs, instantiated>>
          /\ task[t].skipped => task'[t] = task[t]]_vars

\* a call was skipped because the other call had registered a provider
C10_Witness ==
    \E t, u \in Tasks :
        /\ task[t].skipped
        /\ task[t].pc = "done"
        /\ task[u].loaded # {}
        /\ Registered(providers) # {}

\* C11: initialize_all passes only enabled configs to _load_provider, in
\* ascending order of priority; no provider whose config is disabled is
\* instantiated or registered, and every id a call loaded is enabled.
C11_OnlyEnabledInPriorityOrder ==
    /\ \A t \in Tasks :
          LET a == task[t].attempted
          IN /\ \A i \in 1..Len(a) : configs[a[i]].enabled
             /\ \A i, j \in 1..Len(a) :
                   i < j => configs[a[i]].priority <= configs[a[j]].priority
             /\ \A id \in task[t].loaded : configs[id].enabled
    /\ \A id \in IdSet :
          ~configs[id].enabled =>
              /\ instantiated[id] = 0
              /\ get_provider(id) = None

\* a call has returned after it attempted two enabled configs of different
\* priority, the config listed first in _configs having the larger one,
\* while a third config is disabled
C11_Witness ==
    \E t \in Tasks :
        /\ task[t].pc = "done"
        /\ task[t].attempted = <<"akshare", "yahoo_finance">>
        /\ configs["akshare"].priority < configs["yahoo_finance"].priority
        /\ ~configs["alpha_vantage"].enabled
        /\ get_provider("akshare") # None

\* ------------------------------------------- ProviderManager, the registry
\* register_provider calls made from outside that one behaviour explores
MaxRegistrations == 2

\* ProviderManager() calls made after the module-level one
MaxConstructions == 1

\* provider_manager = ProviderManager(), the instance the module creates
ModuleInstance == [obj |-> 1]

\* the provider object handed to the k-th register_provider call made from
\* outside: a new object each time
Mock(k) == [id |-> "mock", n |-> k]

\* the categories argument of register_provider: absent, one category,
\* the same category twice, two categories
CategoryLists ==
    {<<>>, <<"equity">>, <<"equity", "equity">>, <<"equity", "news">>}

\* provider.categories: no such attribute, or strings of which one names
\* no DataCategory
OwnCategories ==
    {[present |-> FALSE, list |-> <<>>],
     [present |-> TRUE, list |-> <<"news", "bogus">>]}

\* a close_all call that has not started
IdleCloser == [pc |-> "idle", snapshot |-> {}, visited |-> <<>>]

\* the locals of a call that has returned are gone when the next call is
\* made
Finished(rec, idle) == IF rec.pc = "returned" THEN idle ELSE rec

\* a health_check call that has not started
IdleChecker ==
    [pc |-> "idle", size |-> 0, probes |-> <<>>,
     results |-> [id \in AllIds |-> None]]

\* the registry right after the module was imported: one instance exists
\* and is initialized, no close_all or health_check call is under way
RegistryAtRest ==
    /\ manager_instance = ModuleInstance
    /\ manager_initialized = TRUE
    /\ handed_out = <<[instance |-> ModuleInstance, after_registration |-> FALSE]>>
    /\ registrations = 0
    /\ last_registered = None
    /\ closer = IdleCloser
    /\ checker = IdleChecker

\* __init__ run again on the existing instance: fresh maps and lock
Construct_reinitializing ==
    /\ Len(handed_out) <= MaxConstructions
    /\ manager_instance' = manager_instance
    /\ manager_initialized' = TRUE
    /\ providers' = [id \in AllIds |-> None]
    /\ categories' = [cat \in Categories |-> <<>>]
    /\ lock' = None
    /\ handed_out' = Append(handed_out,
                            [instance |-> manager_instance,
                             after_registration |-> Registered(providers) # {}])
    /\ closer' = Finished(closer, IdleCloser)
    /\ checker' = Finished(checker, IdleChecker)
    /\ UNCHANGED <<configs, instantiated, task, registrations, last_registered>>
    /\ UNCHANGED <<provider_vars, middleware_vars, service_vars>>

\* ProviderManager(): __new__ creates the instance only when there is none,
\* __init__ returns at once when the class is initialized
Construct ==
    /\ Len(handed_out) <= MaxConstructions
    /\ manager_instance' = IF manager_instance = None
                           THEN [obj |-> Len(handed_out) + 1]
                           ELSE manager_instance
    /\ manager_initialized' = TRUE
    /\ IF manager_initialized
       THEN UNCHANGED <<providers, categories, lock>>
       ELSE /\ providers' = [id \in AllIds |-> None]
            /\ categories' = [cat \in Categories |-> <<>>]
            /\ lock' = None
    /\ handed_out' = Append(handed_out,
                            [instance |-> manager_instance',
                             after_registration |-> Registered(providers) # {}])
    /\ closer' = Finished(closer, IdleCloser)
    /\ checker' = Finished(checker, IdleChecker)
    /\ UNCHANGED <<configs, instantiated, task, registrations, last_registered>>
    /\ UNCHANGED <<provider_vars, middleware_vars, service_vars>>

\* DataCategory(category) for a string: the member, or ValueError
IsDataCategory(category) == category \in Categories

\* register_provider, the branch on provider.categories: strings that name
\* no DataCategory are skipped
OwnCategoryList(own) == SelectSeq(own.list, IsDataCategory)

\* the categories register_provider indexes the provider under
EffectiveCategories(cats, own) ==
    IF cats # <<>> THEN cats
    ELSE IF own.present THEN OwnCategoryList(own)
    ELSE <<>>

\* a registration that does not wait for the lock
RegisterProvider_unlocked(id, provider, cats, own) ==
    /\ registrations < MaxRegistrations
    /\ providers' = [providers EXCEPT ![id] = provider]
    /\ categories' = RegisterCategories(categories, id,
                                        EffectiveCategories(cats, own))
    /\ registrations' = registrations + 1
    /\ last_registered' =
          [id |-> id, provider |-> provider, categories |-> cats,
           repeated |-> /\ providers[id] # None
                        /\ \E cat \in Categories :
                              /\ \E i \in 1..Len(cats) : cats[i] = cat
                              /\ \E j \in 1..Len(categories[cat]) :
                                    categories[cat][j] = id]
    /\ closer' = Finished(closer, IdleCloser)
    /\ checker' = Finished(checker, IdleChecker)
    /\ UNCHANGED <<configs, lock, instantiated, task, manager_instance,
                   manager_initialized, handed_out>>
    /\ UNCHANGED <<provider_vars, middleware_vars, service_vars>>

\* register_provider called from outside: the body runs under the lock
\* without suspending, so a call that finds the lock held waits and then
\* runs as one step
RegisterProvider(id, provider, cats, own) ==
    /\ registrations < MaxRegistrations
    /\ lock = None
    /\ providers' = [providers EXCEPT ![id] = provider]
    /\ categories' = RegisterCategories(categories, id,
                                        EffectiveCategories(cats, own))
    /\ registrations' = registrations + 1
    /\ last_registered' =
          [id |-> id, provider |-> provider, categories |-> cats,
           repeated |-> /\ providers[id] # None
                        /\ \E cat \in Categories :
                              /\ \E i \in 1..Len(cats) : cats[i] = cat
                              /\ \E j \in 1..Len(categories[cat]) :
                                    categories[cat][j] = id]
    /\ closer' = Finished(closer, IdleCloser)
    /\ checker' = Finished(checker, IdleChecker)
    /\ UNCHANGED <<configs, lock, instantiated, task, manager_instance,
                   manager_initialized, handed_out>>
    /\ UNCHANGED <<provider_vars, middleware_vars, service_vars>>

\* what a close hook can do: the provider has none, it returns, it raises
CloseOutcomes == {"no_hook", "closed", "raises"}

\* close_all: take the lock; with no provider registered the loop is empty
\* and the call clears the maps and returns in the same step
CloseAllStart ==
    /\ closer.pc \in {"idle", "returned"}
    /\ lock = None
    /\ IF Registered(providers) = {}
       THEN /\ closer' = [IdleCloser EXCEPT !.pc = "returned"]
            /\ categories' = [cat \in Categories |-> <<>>]
            /\ UNCHANGED lock
       ELSE /\ closer' = [IdleCloser EXCEPT !.pc = "closing",
                                            !.snapshot = Registered(providers)]
            /\ lock' = [holder |-> "close_all"]
            /\ UNCHANGED categories
    /\ checker' = Finished(checker, IdleChecker)
    /\ UNCHANGED <<configs, providers, instantiated, task, manager_instance,
                   manager_initialized, handed_out, registrations,
                   last_registered>>
    /\ UNCHANGED <<provider_vars, middleware_vars, service_vars>>

\* the ids close_all has visited
Visited(rec) == {rec.visited[i].id : i \in 1..Len(rec.visited)}

\* close_all: after the last provider clear both maps and release the lock
FinishClose(rec) ==
    /\ closer' = [rec EXCEPT !.pc = "returned"]
    /\ providers' = [id \in AllIds |-> None]
    /\ categories' = [cat \in Categories |-> <<>>]
    /\ lock' = None
    /\ last_registered' = None

\* a raising close hook that ends close_all, the lock released on the way
\* out
CloseProvider_aborting(id, outcome) ==
    /\ closer.pc = "closing"
    /\ id \in Registered(providers) \ Visited(closer)
    /\ LET rec == [closer EXCEPT
                     !.visited = Append(@, [id |-> id, outcome |-> outcome])]
       IN IF outcome = "raises"
          THEN /\ closer' = [rec EXCEPT !.pc = "raised"]
               /\ lock' = None
               /\ UNCHANGED <<providers, categories, last_registered>>
          ELSE IF Visited(rec) = Registered(providers)
               THEN FinishClose(rec)
               ELSE /\ closer' = rec
                    /\ UNCHANGED <<providers, categories, lock, last_registered>>
    /\ UNCHANGED <<configs, instantiated, task, manager_instance,
                   manager_initialized, handed_out, registrations, checker>>
    /\ UNCHANGED <<provider_vars, middleware_vars, service_vars>>

\* close_all, one turn of the loop: call the provider's close hook if it
\* has one, log an Exception it raises; after the last provider clear the
\* maps and release the lock. The dict is visited in some order.
CloseProvider(id, outcome) ==
    /\ closer.pc = "closing"
    /\ id \in Registered(providers) \ Visited(closer)
    /\ LET rec == [closer EXCEPT
                     !.visited = Append(@, [id |-> id, outcome |-> outcome])]
       IN IF Visited(rec) = Registered(providers)
          THEN FinishClose(rec)
          ELSE /\ closer' = rec
               /\ UNCHANGED <<providers, categories, lock, last_registered>>
    /\ UNCHANGED <<configs, instantiated, task, manager_instance,
                   manager_initialized, handed_out, registrations, checker>>
    /\ UNCHANGED <<provider_vars, middleware_vars, service_vars>>

\* what a health probe can do: the provider has none, it returns True, a
\* non-empty dict, False or an empty dict, or it raises
ProbeOutcomes == {"no_probe", "True", "dict", "False", "empty_dict", "raises"}

\* health_check, the entry written for one provider
HealthEntry(outcome) ==
    CASE outcome = "no_probe" ->
            [status |-> "healthy", details |-> "message"]
      [] outcome = "raises" ->
            [status |-> "unhealthy", details |-> "error"]
      [] OTHER ->
            [status |-> IF outcome \in {"True", "dict"}
                        THEN "healthy" ELSE "unhealthy",
             details |-> IF outcome \in {"dict", "empty_dict"}
                         THEN "result" ELSE "empty"]

\* health_check entry: results = {} and the iterator over _providers,
\* which remembers the size of the dict; with no provider registered the
\* call returns the empty results in the same step
HealthCheckStart ==
    /\ checker.pc \in {"idle", "returned"}
    /\ checker' = [IdleChecker EXCEPT
                     !.pc = IF Registered(providers) = {}
                            THEN "returned" ELSE "checking",
                     !.size = Cardinality(Registered(providers))]
    /\ closer' = Finished(closer, IdleCloser)
    /\ UNCHANGED <<manager_vars, manager_instance, manager_initialized,
                   handed_out, registrations, last_registered>>
    /\ UNCHANGED <<provider_vars, middleware_vars, service_vars>>

\* the ids health_check has probed
Probed(rec) == {rec.probes[i].id : i \in 1..Len(rec.probes)}

\* a raising probe that ends health_check
HealthProbe_aborting(id, outcome) ==
    /\ checker.pc = "checking"
    /\ IF Cardinality(Registered(providers)) # checker.size \/ outcome = "raises"
       THEN checker' = [checker EXCEPT !.pc = "raised"]
       ELSE /\ id \in Registered(providers) \ Probed(checker)
            /\ LET rec == [checker EXCEPT
                             !.probes = Append(@, [id |-> id, outcome |-> outcome]),
                             !.results[id] = HealthEntry(outcome)]
               IN checker' = [rec EXCEPT
                                !.pc = IF Probed(rec) = Registered(providers)
                                       THEN "returned" ELSE "checking"]
    /\ UNCHANGED <<manager_vars, manager_instance, manager_initialized,
                   handed_out, registrations, last_registered, closer>>
    /\ UNCHANGED <<provider_vars, middleware_vars, service_vars>>

\* health_check, one turn of the loop: the iterator raises RuntimeError
\* when the dict changed size since the loop began; otherwise the probe of
\* the next provider is awaited and its entry written, an Exception of the
\* probe becoming an unhealthy entry; after the last provider the results
\* are returned. The dict is visited in some order.
HealthProbe(id, outcome) ==
    /\ checker.pc = "checking"
    /\ IF Cardinality(Registered(providers)) # checker.size
       THEN checker' = [checker EXCEPT !.pc = "raised"]
       ELSE /\ id \in Registered(providers) \ Probed(checker)
            /\ LET rec == [checker EXCEPT
                             !.probes = Append(@, [id |-> id, outcome |-> outcome]),
                             !.results[id] = HealthEntry(outcome)]
               IN checker' = [rec EXCEPT
                                !.pc = IF Probed(rec) = Registered(providers)
                                       THEN "returned" ELSE "checking"]
    /\ UNCHANGED <<manager_vars, manager_instance, manager_initialized,
                   handed_out, registrations, last_registered, closer>>
    /\ UNCHANGED <<provider_vars, middleware_vars, service_vars>>

\* self._configs.get(provider_id)
config_of(id) == IF id \in DOMAIN configs THEN configs[id] ELSE None

\* get_providers_by_category without the test of config.enabled
ValidIds_any(cat) ==
    SortedByPriority(
        SelectSeq(categories[cat],
                  LAMBDA id : config_of(id) # None /\ providers[id] # None),
        configs)

\* get_providers_by_category, the (priority, provider) pairs kept and
\* sorted by priority, named by provider id: an id counts when it has a
\* config, an instance, and the config is enabled
ValidIds(cat) ==
    SortedByPriority(
        SelectSeq(categories[cat],
                  LAMBDA id : /\ config_of(id) # None
                              /\ providers[id] # None
                              /\ config_of(id).enabled),
        configs)

\* get_providers_by_category: the instances of the valid ids
get_providers_by_category(cat) ==
    [i \in 1..Len(ValidIds(cat)) |-> providers[ValidIds(cat)[i]]]

\* get_best_provider
get_best_provider(cat) ==
    IF get_providers_by_category(cat) # <<>>
    THEN get_providers_by_category(cat)[1]
    ELSE None

\* get_provider_status that counts the enabled configs
get_provider_status_configured ==
    LET active_count == Cardinality({id \in IdSet : configs[id].enabled})
    IN [total_providers |-> active_count,
        health |-> IF active_count > 0 THEN "healthy" ELSE "unhealthy"]

\* get_provider_status: the number of registered providers and the health
\* derived from it
get_provider_status ==
    LET active_count == Cardinality(Registered(providers))
    IN [total_providers |-> active_count,
        configured_providers |-> Cardinality({id \in IdSet : configs[id].enabled}),
        health |-> IF active_count > 0 THEN "healthy" ELSE "unhealthy"]

\* registrations from outside with every shape of the categories argument
RegistryNext ==
    \E id \in AllIds, cats \in CategoryLists, own \in OwnCategories :
        RegisterProvider(id, Mock(registrations + 1), cats, own)

\* health_check runs to its end before the registry is changed again
NoCheckRunning == checker.pc # "checking"

\* the manager in service: constructions, registrations, close_all and
\* health_check calls
LifecycleNext ==
    \/ NoCheckRunning /\ Construct
    \/ /\ NoCheckRunning
       /\ \E id \in AllIds :
             RegisterProvider(id, Mock(registrations + 1),
                              <<"equity", "news">>,
                              [present |-> FALSE, list |-> <<>>])
    \/ NoCheckRunning /\ CloseAllStart
    \/ \E id \in AllIds, outcome \in CloseOutcomes : CloseProvider(id, outcome)
    \/ closer.pc # "closing" /\ HealthCheckStart
    \/ \E id \in AllIds, outcome \in ProbeOutcomes : HealthProbe(id, outcome)

\* the manager in service with nothing holding the callers apart: a
\* registration, a construction or a close_all runs while a probe of
\* health_check is awaited, health_check starts while close_all is closing
OverlapNext ==
    \/ Construct
    \/ \E id \in AllIds :
          RegisterProvider(id, Mock(registrations + 1),
                           <<"equity", "news">>,
                           [present |-> FALSE, list |-> <<>>])
    \/ CloseAllStart
    \/ \E id \in AllIds, outcome \in CloseOutcomes : CloseProvider(id, outcome)
    \/ HealthCheckStart
    \/ \E id \in AllIds, outcome \in ProbeOutcomes : HealthProbe(id, outcome)

\* ------------------------------------------------------- gRPC middleware
\* time.time() - start_time of a request, in ticks
Duration == 1

\* record_request calls between two resets
MaxRecords == 3

\* the wrapped service methods: EquityService.GetHistoricalData under
\* standard_grpc_method, a method under grpc_error_handler alone as in
\* tests/test_optimizations.py, and a method the production stack is
\* applied to
Methods == {"GetHistoricalData", "mock_grpc_method", "production_method"}

\* standard_grpc_method: grpc_error_handler(grpc_monitor(grpc_logging()(func))),
\* innermost wrapper first
standard_grpc_method == <<"grpc_logging", "grpc_monitor", "grpc_error_handler">>

\* create_production_middleware_stack: the middlewares in the order they
\* are added
create_production_middleware_stack ==
    <<"grpc_rate_limit", "grpc_logging", "grpc_monitor", "grpc_error_handler">>

\* the max_requests of the production stack's grpc_rate_limit
production_max_requests == 100

\* reversed(s)
RECURSIVE Reversed(_)
Reversed(s) == IF s = <<>> THEN <<>> ELSE Append(Reversed(Tail(s)), Head(s))

\* apply_to_method: the middlewares are applied in reversed order, so the
\* one added last wraps the method first; the result lists the wrappers
\* innermost first
apply_to_method(middlewares) == Reversed(middlewares)

\* the wrappers around each method, innermost first
MethodStack(method) ==
    CASE method = "GetHistoricalData" -> standard_grpc_method
      [] method = "production_method" ->
             apply_to_method(create_production_middleware_stack)
      [] OTHER -> <<"grpc_error_handler">>

\* exception classes a handler raises, each with the classes it is an
\* instance of; TimeoutError is asyncio.TimeoutError
Bases ==
    [ValueError |-> {"ValueError", "Exception"},
     UnicodeDecodeError |-> {"UnicodeDecodeError", "ValueError", "Exception"},
     PermissionError |-> {"PermissionError", "OSError", "Exception"},
     FileNotFoundError |-> {"FileNotFoundError", "OSError", "Exception"},
     TimeoutError |-> {"TimeoutError", "Exception"},
     ConnectionError |-> {"ConnectionError", "OSError", "Exception"},
     ConnectionResetError |-> {"ConnectionResetError", "ConnectionError",
                               "OSError", "Exception"},
     RuntimeError |-> {"RuntimeError", "Exception"},
     KeyError |-> {"KeyError", "LookupError", "Exception"},
     Exception |-> {"Exception"}]

HandlerExceptions == DOMAIN Bases

\* grpc.StatusCode members the error handler sets
StatusCodes ==
    {"INVALID_ARGUMENT", "PERMISSION_DENIED", "NOT_FOUND",
     "DEADLINE_EXCEEDED", "UNAVAILABLE", "INTERNAL"}

\* the except clauses of grpc_error_handler, in their order
ExceptClauses ==
    <<[class |-> "ValueError", status |-> "INVALID_ARGUMENT",
       prefix |-> "Invalid argument"],
      [class |-> "PermissionError", status |-> "PERMISSION_DENIED",
       prefix |-> "Permission denied"],
      [class |-> "FileNotFoundError", status |-> "NOT_FOUND",
       prefix |-> "Resource not found"],
      [class |-> "TimeoutError", status |-> "DEADLINE_EXCEEDED",
       prefix |-> "Operation timeout"],
      [class |-> "ConnectionError", status |-> "UNAVAILABLE",
       prefix |-> "Service unavailable"],
      [class |-> "Exception", status |-> "INTERNAL",
       prefix |-> "Internal error"]>>

\* the first except clause the exception is an instance of
RECURSIVE MatchClause(_, _)
MatchClause(kind, i) ==
    IF i > Len(ExceptClauses) THEN None
    ELSE IF ExceptClauses[i].class \in Bases[kind] THEN ExceptClauses[i]
    ELSE MatchClause(kind, i + 1)

\* ServiceMetrics.__init__
EmptyMetrics ==
    [request_count |-> 0, error_count |-> 0, response_times |-> <<>>,
     error_types |-> [s \in StatusCodes |-> 0],
     method_stats |-> [m \in Methods |->
                         [count |-> 0, errors |-> 0, total_time |-> 0,
                          avg_time |-> 0]]]

\* ServiceMetrics.record_request
record_request(mt, method, duration, success, error_type) ==
    LET stats == mt.method_stats[method]
        count == stats.count + 1
        total == stats.total_time + duration
    IN [request_count |-> mt.request_count + 1,
        error_count |-> IF success THEN mt.error_count ELSE mt.error_count + 1,
        response_times |-> Append(mt.response_times, duration),
        error_types |-> IF ~success /\ error_type # None
                        THEN [mt.error_types EXCEPT ![error_type.status] = @ + 1]
                        ELSE mt.error_types,
        method_stats |-> [mt.method_stats EXCEPT ![method] =
                            [count |-> count,
                             errors |-> IF success THEN stats.errors
                                        ELSE stats.errors + 1,
                             total_time |-> total,
                             avg_time |-> total \div count]]]

\* reset that leaves the stored latencies in place
reset_keeping_latencies(mt) ==
    [request_count |-> 0, error_count |-> 0,
     response_times |-> mt.response_times,
     error_types |-> [s \in StatusCodes |-> 0],
     method_stats |-> [m \in Methods |->
                         [count |-> 0, errors |-> 0, total_time |-> 0,
                          avg_time |-> 0]]]

\* ServiceMetrics.reset: the counters to 0, the list and both maps cleared;
\* a key that is absent from a map reads as count 0, which no stored entry
\* has
reset(mt) ==
    [request_count |-> 0, error_count |-> 0, response_times |-> <<>>,
     error_types |-> [s \in StatusCodes |-> 0],
     method_stats |-> [m \in Methods |->
                         [count |-> 0, errors |-> 0, total_time |-> 0,
                          avg_time |-> 0]]]

\* the error_type argument of record_request: absent, or a name
ErrorTypes == {None} \cup {[status |-> s] : s \in {"INTERNAL", "UNAVAILABLE"}}

\* the durations handed to record_request, in ticks
Durations == {0, Duration}

\* global_metrics.record_request called on its own
RecordRequest(method, duration, success, error_type) ==
    /\ metrics.request_count < MaxRecords
    /\ metrics' = record_request(metrics, method, duration, success, error_type)
    /\ UNCHANGED request
    /\ UNCHANGED <<provider_vars, manager_vars, registry_vars, service_vars>>

\* global_metrics.reset called on its own
Reset ==
    /\ metrics' = reset(metrics)
    /\ UNCHANGED request
    /\ UNCHANGED <<provider_vars, manager_vars, registry_vars, service_vars>>

\* record_request and reset calls in any order
MetricsNext ==
    \/ \E method \in Methods, duration \in Durations, success \in BOOLEAN,
          error_type \in ErrorTypes :
            RecordRequest(method, duration, success, error_type)
    \/ Reset

\* what the wrapped function did, as its caller sees it: a result or an
\* exception, and the set_code/set_details calls made on the context
HandlerReturn(result) == [raised |-> None, result |-> result, context |-> <<>>]

HandlerRaise(e) == [raised |-> e, result |-> None, context |-> <<>>]

\* grpc_logging: log and hand the result or the exception on
grpc_logging(out, method, mt) == [out |-> out, metrics |-> mt]

\* grpc_monitor: record the request, re-raise the exception
grpc_monitor(out, method, mt) ==
    [out |-> out,
     metrics |-> record_request(mt, method, Duration, out.raised = None, None)]

\* grpc_error_handler that re-raises what no specific clause matches
grpc_error_handler_reraising(out, method, mt) ==
    IF out.raised = None
    THEN [out |-> out,
          metrics |-> record_request(mt, method, Duration, TRUE, None)]
    ELSE LET clause == MatchClause(out.raised.kind, 1)
         IN IF clause.status = "INTERNAL"
            THEN [out |-> out,
                  metrics |-> record_request(mt, method, Duration, FALSE, clause)]
            ELSE [out |-> [raised |-> None, result |-> None,
                           context |-> Append(out.context,
                                              [code |-> clause.status,
                                               prefix |-> clause.prefix,
                                               text |-> out.raised])],
                  metrics |-> record_request(mt, method, Duration, FALSE, clause)]

\* grpc_error_handler: the result unchanged, or for an exception the
\* status and details of the first matching clause and None; the request
\* is recorded in the finally block
grpc_error_handler(out, method, mt) ==
    IF out.raised = None
    THEN [out |-> out,
          metrics |-> record_request(mt, method, Duration, TRUE, None)]
    ELSE LET clause == MatchClause(out.raised.kind, 1)
         IN [out |-> [raised |-> None, result |-> None,
                      context |-> Append(out.context,
                                         [code |-> clause.status,
                                          prefix |-> clause.prefix,
                                          text |-> out.raised])],
             metrics |-> record_request(mt, method, Duration, FALSE, clause)]

\* grpc_rate_limit of the production stack: the requests made here stay
\* under its max_requests, so the call goes through to the function inside
\* and its outcome comes back unchanged; at the limit the wrapper sets
\* RESOURCE_EXHAUSTED and returns None
grpc_rate_limit(out, method, mt) ==
    IF Cardinality(Calls) <= production_max_requests
    THEN [out |-> out, metrics |-> mt]
    ELSE [out |-> [raised |-> None, result |-> None,
                   context |-> <<[code |-> "RESOURCE_EXHAUSTED",
                                  prefix |-> "rate limit",
                                  text |-> None]>>],
          metrics |-> mt]

\* one wrapper applied to what the function inside it did
ApplyWrapper(name, out, method, mt) ==
    CASE name = "grpc_logging" -> grpc_logging(out, method, mt)
      [] name = "grpc_monitor" -> grpc_monitor(out, method, mt)
      [] name = "grpc_rate_limit" -> grpc_rate_limit(out, method, mt)
      [] OTHER -> grpc_error_handler(out, method, mt)

\* the wrappers of a stack unwinding, innermost first
RECURSIVE ApplyStack(_, _, _, _)
ApplyStack(stack, out, method, mt) ==
    IF stack = <<>> THEN [out |-> out, metrics |-> mt]
    ELSE LET inner == ApplyWrapper(Head(stack), out, method, mt)
         IN ApplyStack(Tail(stack), inner.out, method, inner.metrics)

\* a request that has not arrived
IdleRequest ==
    [pc |-> "idle", method |-> "none", provider |-> "none",
     handler |-> None, returned |-> None, escaped |-> None, context |-> <<>>]

\* the provider ids a request names
RequestedProviders == {"yahoo_finance", "akshare"}

\* no request has arrived, the metrics are fresh
MiddlewareAtRest ==
    /\ metrics = EmptyMetrics
    /\ request = [r \in Calls |-> IdleRequest]

\* the registry the service answers from: initialize_all has run and
\* loaded yahoo_finance only
ManagerLoaded ==
    /\ configs = [id \in IdSet |-> [enabled |-> TRUE, priority |-> 1]]
    /\ providers = [id \in AllIds |->
                      IF id = "yahoo_finance"
                      THEN [id |-> id, n |-> 1] ELSE None]
    /\ categories = RegisterCategories([cat \in Categories |-> <<>>],
                                       "yahoo_finance",
                                       DefaultCategories["yahoo_finance"])
    /\ lock = None
    /\ instantiated = [id \in IdSet |-> IF id = "yahoo_finance" THEN 1 ELSE 0]
    /\ task = [t \in Tasks |-> IdleTask]

\* self.config.rate_limit of the provider the manager loaded, in requests
\* per minute: the smallest value a ProviderConfig accepts
config_rate_limit == 1

\* the provider as BaseProvider.__init__ leaves it: no rate limiter, no cache
ProviderPlain ==
    /\ config_retries \in 0..MaxRetries
    /\ rate_limiter = FALSE
    /\ cache = FALSE
    /\ call = [c \in Calls |-> IdleCall]

\* a request enters the wrappers of its method and reaches the handler
ReceiveRequest(r, method, provider_id) ==
    /\ request[r].pc = "idle"
    /\ request' = [request EXCEPT ![r] =
                      [@ EXCEPT !.pc = "handling", !.method = method,
                                !.provider = provider_id]]
    /\ UNCHANGED metrics
    /\ UNCHANGED <<provider_vars, manager_vars, registry_vars, service_vars>>

\* the wrappers unwind around what the handler did: the metrics are
\* recorded, the status is set, the request ends
Unwind(r, out) ==
    LET done == ApplyStack(MethodStack(request[r].method), out,
                           request[r].method, metrics)
    IN /\ metrics' = done.metrics
       /\ request' = [request EXCEPT ![r] =
                         [@ EXCEPT !.pc = "done", !.handler = out,
                                   !.returned = done.out.result,
                                   !.escaped = done.out.raised,
                                   !.context = done.out.context]]

\* GetHistoricalData: the provider is looked up and get_historical_data
\* awaited, which is a get_data call
GetHistoricalData(r, params) ==
    /\ request[r].pc = "handling"
    /\ request[r].method = "GetHistoricalData"
    /\ get_provider(request[r].provider) # None
    /\ GetDataValidate(r, params)
    /\ UNCHANGED <<metrics, request>>

\* GetHistoricalData ends: no provider of that id raises ValueError, the
\* exception of get_data propagates, its response is built into the reply
GetHistoricalDataEnd(r) ==
    /\ request[r].pc = "handling"
    /\ request[r].method = "GetHistoricalData"
    /\ IF get_provider(request[r].provider) = None
       THEN Unwind(r, HandlerRaise(Exc("ValueError", "GetHistoricalData", r, 0)))
       ELSE /\ call[r].pc \in {"returned", "raised"}
            /\ IF call[r].pc = "raised"
               THEN Unwind(r, HandlerRaise(call[r].raised))
               ELSE Unwind(r, HandlerReturn(call[r].result))
    /\ UNCHANGED <<provider_vars, manager_vars, registry_vars, service_vars>>

\* what a handler without a provider behind it does
DirectOutcomes == {"success"} \cup HandlerExceptions

\* mock_grpc_method returns or raises
MockMethodEnd(r, outcome) ==
    /\ request[r].pc = "handling"
    /\ request[r].method = "mock_grpc_method"
    /\ IF outcome = "success"
       THEN Unwind(r, HandlerReturn([status |-> "success"]))
       ELSE Unwind(r, HandlerRaise(Exc(outcome, "mock_grpc_method", r, 0)))
    /\ UNCHANGED <<provider_vars, manager_vars, registry_vars, service_vars>>

\* the method under the production stack returns or raises
ProductionMethodEnd(r, outcome) ==
    /\ request[r].pc = "handling"
    /\ request[r].method = "production_method"
    /\ IF outcome = "success"
       THEN Unwind(r, HandlerReturn([status |-> "success"]))
       ELSE Unwind(r, HandlerRaise(Exc(outcome, "production_method", r, 0)))
    /\ UNCHANGED <<provider_vars, manager_vars, registry_vars, service_vars>>

\* requests arrive, their handlers run (the get_data call behind a
\* GetHistoricalData request taking its steps) and the wrappers unwind
MiddlewareNext ==
    \/ \E r \in Calls, method \in Methods, provider_id \in RequestedProviders :
          ReceiveRequest(r, method, provider_id)
    \/ \E r \in Calls, params \in ParamBags : GetHistoricalData(r, params)
    \/ \E r \in Calls : CallStep(r)
    \/ \E r \in Calls : GetHistoricalDataEnd(r)
    \/ \E r \in Calls, outcome \in DirectOutcomes : MockMethodEnd(r, outcome)
    \/ \E r \in Calls, outcome \in DirectOutcomes :
          ProductionMethodEnd(r, outcome)

\* --------------------------------------------------------- grpc_rate_limit
\* largest max_requests a rate limiter is built with
MaxRequests == 2

\* window_seconds of the rate limiter
WindowSeconds == 2

\* the last second of the clock
MaxTime == 3

\* context.peer() of the callers
Clients == {"peer1", "peer2"}

\* current_time - (current_time % window_seconds)
window_start(current_time) == current_time - (current_time % WindowSeconds)

\* no call has been made on the rate-limited method
LimiterAtRest ==
    /\ now = 0
    /\ max_requests = MaxRequests
    /\ request_counts = [client \in Clients |-> [w \in 0..MaxTime |-> 0]]
    /\ limited = <<>>

\* grpc_rate_limit(max_requests, window_seconds): request_counts = {}; a key
\* that is absent reads as 0, which is never stored
LimiterInit ==
    /\ now = 0
    /\ max_requests \in 0..MaxRequests
    /\ request_counts = [client \in Clients |-> [w \in 0..MaxTime |-> 0]]
    /\ limited = <<>>

\* the clock moves on by a second
Tick ==
    /\ now < MaxTime
    /\ now' = now + 1
    /\ UNCHANGED <<max_requests, request_counts, limited>>
    /\ UNCHANGED beside_limiter

\* a limit that lets one call more through
over_limit_strict(current_count, limit) == current_count > limit

\* if current_count >= max_requests
over_limit(current_count, limit) == current_count >= limit

\* the wrapper with the counts of earlier windows left in the map
RateLimitedCall_unpruned(client) ==
    /\ Len(limited) < 2 * (MaxRequests + 1)
    /\ LET start == window_start(now)
           current_count == request_counts[client][start]
       IN IF over_limit(current_count, max_requests)
          THEN /\ UNCHANGED request_counts
               /\ limited' = Append(limited,
                     [client |-> client, time |-> now, invoked |-> FALSE,
                      result |-> None,
                      context |-> <<[code |-> "RESOURCE_EXHAUSTED"]>>])
          ELSE /\ request_counts' =
                     [request_counts EXCEPT ![client][start] = current_count + 1]
               /\ limited' = Append(limited,
                     [client |-> client, time |-> now, invoked |-> TRUE,
                      result |-> [status |-> "success"],
                      context |-> <<>>])
    /\ UNCHANGED <<now, max_requests>>
    /\ UNCHANGED beside_limiter

\* the wrapper of grpc_rate_limit: drop the counts of earlier windows, then
\* either reject with RESOURCE_EXHAUSTED and None, or count the call and
\* await the wrapped handler
RateLimitedCall(client) ==
    /\ Len(limited) < 2 * (MaxRequests + 1)
    /\ LET start == window_start(now)
           kept == [c \in Clients |->
                      [w \in 0..MaxTime |->
                          IF w < start THEN 0 ELSE request_counts[c][w]]]
           current_count == kept[client][start]
       IN IF over_limit(current_count, max_requests)
          THEN /\ request_counts' = kept
               /\ limited' = Append(limited,
                     [client |-> client, time |-> now, invoked |-> FALSE,
                      result |-> None,
                      context |-> <<[code |-> "RESOURCE_EXHAUSTED"]>>])
          ELSE /\ request_counts' =
                     [kept EXCEPT ![client][start] = current_count + 1]
               /\ limited' = Append(limited,
                     [client |-> client, time |-> now, invoked |-> TRUE,
                      result |-> [status |-> "success"],
                      context |-> <<>>])
    /\ UNCHANGED <<now, max_requests>>
    /\ UNCHANGED beside_limiter

\* ----------------------------------------------------- grpc_cache_response
\* largest ttl_seconds a response cache is built with
MaxTtl == 2

\* calls made on the cached method
MaxCachedCalls == 3

\* the cache keys of the requests: method name and request hash
CacheKeys == {"k1", "k2"}

\* a call on the cached method that has not started or has returned
IdleCachedCall ==
    [pc |-> "idle", key |-> "none", current_time |-> 0, number |-> 0,
     returned |-> None]

\* no call has been made on the cached method
CacheAtRest ==
    /\ ttl_seconds = MaxTtl
    /\ response_cache = [k \in CacheKeys |-> None]
    /\ cached_call = [c \in Calls |-> IdleCachedCall]
    /\ cached_calls_made = 0

\* grpc_cache_response(ttl_seconds): cache = {}
CacheInit ==
    /\ ttl_seconds \in 1..MaxTtl
    /\ response_cache = [k \in CacheKeys |-> None]
    /\ cached_call = [c \in Calls |-> IdleCachedCall]
    /\ cached_calls_made = 0

\* an entry that stays fresh through the second it turns ttl_seconds old
is_fresh_inclusive(entry, current_time, ttl) ==
    current_time - entry.cached_time <= ttl

\* if current_time - cached_time < ttl_seconds
is_fresh(entry, current_time, ttl) ==
    current_time - entry.cached_time < ttl

\* the wrapper of grpc_cache_response up to the handler: read the clock,
\* return the cached result of a fresh entry, delete an expired entry
CacheLookup(c, key) ==
    /\ cached_call[c].pc = "idle"
    /\ cached_calls_made < MaxCachedCalls
    /\ cached_calls_made' = cached_calls_made + 1
    /\ LET rec == [IdleCachedCall EXCEPT !.key = key, !.current_time = now,
                                         !.number = cached_calls_made + 1]
           entry == response_cache[key]
       IN IF entry # None /\ is_fresh(entry, now, ttl_seconds)
          THEN /\ cached_call' = [cached_call EXCEPT ![c] =
                                     [rec EXCEPT !.returned = entry.result]]
               /\ UNCHANGED response_cache
          ELSE /\ cached_call' = [cached_call EXCEPT ![c] =
                                     [rec EXCEPT !.pc = "handler"]]
               /\ response_cache' = [response_cache EXCEPT ![key] = None]
    /\ UNCHANGED <<now, ttl_seconds>>
    /\ UNCHANGED beside_cache

\* what the handler behind the cache gives back: a result, None, or an
\* exception
CachedOutcomes == {"result", "None", "raises"}

\* the wrapper storing whatever the handler returned, None included
CacheStore_any(c, outcome) ==
    /\ cached_call[c].pc = "handler"
    /\ LET result == IF outcome = "result"
                     THEN [value |-> cached_call[c].number] ELSE None
       IN IF outcome \in {"result", "None"}
          THEN /\ response_cache' =
                     [response_cache EXCEPT ![cached_call[c].key] =
                         [result |-> result,
                          cached_time |-> cached_call[c].current_time]]
               /\ cached_call' = [cached_call EXCEPT ![c] =
                                     [@ EXCEPT !.pc = "idle",
                                               !.returned = result]]
          ELSE /\ UNCHANGED response_cache
               /\ cached_call' = [cached_call EXCEPT ![c] =
                                     [@ EXCEPT !.pc = "idle",
                                               !.returned = [raised |-> TRUE]]]
    /\ UNCHANGED <<now, ttl_seconds, cached_calls_made>>
    /\ UNCHANGED beside_cache

\* the wrapper of grpc_cache_response after the handler: a result that is
\* not None is stored with the time read at the start of the call
CacheStore(c, outcome) ==
    /\ cached_call[c].pc = "handler"
    /\ LET result == [value |-> cached_call[c].number]
       IN CASE outcome = "result" ->
                 /\ response_cache' =
                       [response_cache EXCEPT ![cached_call[c].key] =
                           [result |-> result,
                            cached_time |-> cached_call[c].current_time]]
                 /\ cached_call' = [cached_call EXCEPT ![c] =
                                       [@ EXCEPT !.pc = "idle",
                                                 !.returned = result]]
            [] outcome = "None" ->
                 /\ UNCHANGED response_cache
                 /\ cached_call' = [cached_call EXCEPT ![c] =
                                       [@ EXCEPT !.pc = "idle"]]
            [] OTHER ->
                 /\ UNCHANGED response_cache
                 /\ cached_call' = [cached_call EXCEPT ![c] =
                                       [@ EXCEPT !.pc = "idle",
                                                 !.returned = [raised |-> TRUE]]]
    /\ UNCHANGED <<now, ttl_seconds, cached_calls_made>>
    /\ UNCHANGED beside_cache

\* cached_grpc_method: grpc_error_handler(grpc_monitor(
\* grpc_cache_response(ttl_seconds)(grpc_logging()(func)))), innermost
\* wrapper first. grpc_logging hands the handler's result or exception on
\* unchanged, so the cache wrapper sees what the handler did.
cached_grpc_method ==
    <<"grpc_logging", "grpc_cache_response", "grpc_monitor", "grpc_error_handler">>

\* what the caller of the composition gets: grpc_error_handler turns an
\* exception that left the cache wrapper into None
Answer(returned) == IF returned = [raised |-> TRUE] THEN None ELSE returned

\* calls on the cached method as time passes
CacheNext ==
    \/ Tick
    \/ \E c \in Calls, key \in CacheKeys : CacheLookup(c, key)
    \/ \E c \in Calls, outcome \in CachedOutcomes : CacheStore(c, outcome)

\* ------------------------------------- fetch_bulk_data, fetch_multiple
\* the largest number of requests handed to one bulk call
MaxFanOut == 3

\* the largest max_concurrent a caller asks for
MaxConcurrent == 2

\* settings.fetching.max_concurrent_fetches
max_concurrent_fetches == 10

\* FetchService.fetch_bulk_data and APIClient.fetch_multiple
BulkOps == {"fetch_bulk_data", "fetch_multiple"}

\* what a caller passes as max_concurrent; -1 stands for the negative values
\* and, for fetch_multiple, 0 also for None
RequestedConcurrency == (-1)..MaxConcurrent

\* how one fetch ends: a response with status success, one with status
\* error, or an exception
SingleOutcomes == {"success", "error", "raised"}

\* no bulk call has been made
IdleBulk ==
    [pc |-> "idle", op |-> "none", max_concurrent |-> 0,
     stop_on_error |-> FALSE, n |-> 0, next |-> 0, results |-> <<>>]

BulkAtRest ==
    /\ bulk = IdleBulk
    /\ semaphore = 0
    /\ fetches = [i \in 1..MaxFanOut |-> "none"]

\* max_concurrent as the call binds it: fetch_bulk_data takes the option as
\* it is, fetch_multiple replaces a falsy one by the configured default
effective_max_concurrent(op, requested) ==
    IF op = "fetch_multiple" /\ requested = 0
    THEN max_concurrent_fetches
    ELSE requested

\* an exception in the results of gather becomes an error response
processed_result(outcome) == IF outcome = "raised" THEN "error" ELSE outcome

\* the call up to its first suspension: asyncio.Semaphore(max_concurrent)
\* raises ValueError for a negative value; otherwise every request becomes a
\* task handed to gather, or with stop_on_error the loop starts at the first
BulkCall(op, n, requested, stop) ==
    /\ bulk.pc = "idle"
    /\ stop => op = "fetch_bulk_data"
    /\ LET value == effective_max_concurrent(op, requested)
           started == [IdleBulk EXCEPT !.op = op, !.max_concurrent = value,
                                       !.stop_on_error = stop, !.n = n]
       IN  IF value < 0
           THEN /\ bulk' = [started EXCEPT !.pc = "raised"]
                /\ UNCHANGED <<semaphore, fetches>>
           ELSE /\ bulk' = [started EXCEPT
                               !.pc = IF ~stop THEN "gather"
                                      ELSE IF n = 0 THEN "returned"
                                      ELSE "loop",
                               !.next = 1]
                /\ semaphore' = value
                /\ fetches' = [i \in 1..MaxFanOut |->
                                  IF i <= n THEN "pending" ELSE "none"]
    /\ UNCHANGED beside_bulk

\* a gate that lets a fetch through when no slot is free
Acquire_ungated(i) ==
    /\ bulk.pc \in {"gather", "loop"}
    /\ fetches[i] = "pending"
    /\ bulk.pc = "loop" => i = bulk.next
    /\ semaphore' = semaphore - 1
    /\ fetches' = [fetches EXCEPT ![i] = "running"]
    /\ UNCHANGED bulk
    /\ UNCHANGED beside_bulk

\* async with semaphore, entered: the fetch of request i takes a free slot
\* and starts; with stop_on_error only the request the loop stands at does
Acquire(i) ==
    /\ bulk.pc \in {"gather", "loop"}
    /\ fetches[i] = "pending"
    /\ bulk.pc = "loop" => i = bulk.next
    /\ semaphore > 0
    /\ semaphore' = semaphore - 1
    /\ fetches' = [fetches EXCEPT ![i] = "running"]
    /\ UNCHANGED bulk
    /\ UNCHANGED beside_bulk

\* a stop_on_error loop without the break: an error response is appended
\* and the loop goes on to the next request
FetchSingle_continuing(i, outcome) ==
    /\ fetches[i] = "running"
    /\ semaphore' = semaphore + 1
    /\ fetches' = [fetches EXCEPT ![i] = outcome]
    /\ bulk' = IF bulk.pc # "loop" THEN bulk
               ELSE IF outcome = "raised" THEN [bulk EXCEPT !.pc = "raised"]
               ELSE [bulk EXCEPT
                        !.results = Append(@, outcome),
                        !.pc = IF i = bulk.n THEN "returned" ELSE "loop",
                        !.next = IF i = bulk.n THEN @ ELSE @ + 1]
    /\ UNCHANGED beside_bulk

\* async with semaphore, left: the fetch of request i ends and gives its
\* slot back, however it ends; with stop_on_error the loop appends the
\* result and goes on, breaks on an error response, or lets the exception
\* out of the call
FetchSingle(i, outcome) ==
    /\ fetches[i] = "running"
    /\ semaphore' = semaphore + 1
    /\ fetches' = [fetches EXCEPT ![i] = outcome]
    /\ bulk' = IF bulk.pc # "loop" THEN bulk
               ELSE IF outcome = "raised" THEN [bulk EXCEPT !.pc = "raised"]
               ELSE [bulk EXCEPT
                        !.results = Append(@, outcome),
                        !.pc = IF outcome = "error" \/ i = bulk.n
                               THEN "returned" ELSE "loop",
                        !.next = IF outcome = "error" \/ i = bulk.n
                                 THEN @ ELSE @ + 1]
    /\ UNCHANGED beside_bulk

\* gather returns once every task has ended; the call returns the results
\* in the order of the requests
GatherReturn ==
    /\ bulk.pc = "gather"
    /\ \A i \in 1..bulk.n : fetches[i] \in SingleOutcomes
    /\ bulk' = [bulk EXCEPT
                   !.pc = "returned",
                   !.results = [i \in 1..bulk.n |-> processed_result(fetches[i])]]
    /\ UNCHANGED <<semaphore, fetches>>
    /\ UNCHANGED beside_bulk

\* one bulk call and the fetches it fans out
BulkNext ==
    \/ \E op \in BulkOps, n \in 0..MaxFanOut,
          requested \in RequestedConcurrency, stop \in BOOLEAN :
          BulkCall(op, n, requested, stop)
    \/ \E i \in 1..MaxFanOut : Acquire(i)
    \/ \E i \in 1..MaxFanOut, outcome \in SingleOutcomes : FetchSingle(i, outcome)
    \/ GatherReturn

\* ------------------------------------- FetcherMicroService, start to stop
\* FetcherMicroService(): no server yet, shutdown not called
NewMicroService ==
    [pc |-> "created", services_health |-> FALSE, server_created |-> FALSE,
     shutdown_called |-> FALSE, fetch_service_closed |-> FALSE,
     stopped |-> FALSE, error_logged |-> FALSE]

MicroAtRest == micro = NewMicroService

\* no initialize_all call is under way and one has run to its end
ProvidersInitialized ==
    /\ \A t \in Tasks : task[t].pc \in {"idle", "done"}
    /\ \E t \in Tasks : task[t].pc = "done"

\* FetcherMicroService.initialize, after server.initialize_providers has
\* awaited initialize_all: fetcher_service.initialize() runs and the health
\* flags follow get_provider_status; an exception leaves through main, which
\* exits without a shutdown
ServiceInitialize(ok) ==
    /\ micro.pc = "created"
    /\ ProvidersInitialized
    /\ micro' = IF ok
                THEN [micro EXCEPT
                        !.pc = "initialized",
                        !.services_health =
                            (get_provider_status.health = "healthy")]
                ELSE [micro EXCEPT !.pc = "exited", !.error_logged = TRUE]
    /\ UNCHANGED beside_micro

\* FetcherMicroService.start: server.start() creates the grpc server and
\* starts it; when it raises, with the server created or not, start logs
\* the error and goes on to shutdown
ServiceStart(created, ok) ==
    /\ micro.pc = "initialized"
    /\ ok => created
    /\ micro' = [micro EXCEPT
                    !.pc = IF ok THEN "serving" ELSE "failed",
                    !.server_created = created,
                    !.error_logged = ~ok]
    /\ UNCHANGED beside_micro

\* FetcherMicroService.shutdown, called by start after the shutdown signal
\* or after a failed start, up to the first suspension of server.stop():
\* stop() does nothing when the grpc server was never created
Shutdown ==
    /\ micro.pc \in {"serving", "failed"}
    /\ ~micro.shutdown_called
    /\ micro' = [micro EXCEPT
                    !.shutdown_called = TRUE,
                    !.pc = IF micro.server_created
                           THEN "closing_service" ELSE "shut_down"]
    /\ UNCHANGED beside_micro

\* FetcherGRPCServer.stop: await fetcher_service.close(), which closes the
\* api client and the web scraper, then every health flag goes False; an
\* exception is logged by shutdown, which then returns
StopCloseService(ok) ==
    /\ micro.pc = "closing_service"
    /\ micro' = IF ok
                THEN [micro EXCEPT !.pc = "stopping_server",
                                   !.fetch_service_closed = TRUE,
                                   !.services_health = FALSE]
                ELSE [micro EXCEPT !.pc = "shut_down", !.error_logged = TRUE]
    /\ UNCHANGED beside_micro

\* FetcherGRPCServer.stop: await self._server.stop(grace=5), then
\* self._stopped.set(); shutdown returns
StopServer(ok) ==
    /\ micro.pc = "stopping_server"
    /\ micro' = [micro EXCEPT !.pc = "shut_down",
                              !.stopped = ok,
                              !.error_logged = @ \/ ~ok]
    /\ UNCHANGED beside_micro

\* the service from its start to its stop: initialize_all runs while the
\* service initializes, and nothing calls the manager after that
MicroNext ==
    \/ micro.pc = "created" /\ ManagerNext
    \/ \E ok \in BOOLEAN : ServiceInitialize(ok)
    \/ \E created, ok \in BOOLEAN : ServiceStart(created, ok)
    \/ Shutdown
    \/ \E ok \in BOOLEAN : StopCloseService(ok)
    \/ \E ok \in BOOLEAN : StopServer(ok)

\* ------------------------------------------- ProviderConfig.__post_init__
\* the longest provider_id tried
MaxIdLen == 2

\* the largest rate_limit, timeout, retries and priority tried
MaxLimit == 1

\* the characters of a provider_id: a letter in both cases, and the three
\* separators
Chars == {"A", "a", " ", "-", "_"}

\* provider ids, the empty one included
IdStrings == UNION {[1..n -> Chars] : n \in 0..MaxIdLen}

\* the values of a numeric field, from the negative to the positive
Limits == (-1)..MaxLimit

\* the arguments of ProviderConfig(...); class_path and provider_name are
\* empty or not
ConfigArgs ==
    [provider_id : IdStrings, class_path : {"", "module.Class"},
     provider_name : {"", "Name"}, rate_limit : Limits, timeout : Limits,
     retries : Limits, priority : Limits]

\* ProviderConfig(provider_id="a", class_path=..., provider_name=...) with
\* the defaults of the other fields clipped to the values tried
DefaultConfigArgs ==
    [provider_id |-> <<"a">>, class_path |-> "module.Class",
     provider_name |-> "Name", rate_limit |-> MaxLimit, timeout |-> MaxLimit,
     retries |-> MaxLimit, priority |-> MaxLimit]

\* str.lower, a character at a time
lower(s) == [i \in 1..Len(s) |-> IF s[i] = "A" THEN "a" ELSE s[i]]

\* str.replace of one character by another
replace(s, old, new) == [i \in 1..Len(s) |-> IF s[i] = old THEN new ELSE s[i]]

\* a normalization that leaves the hyphens
normalize_provider_id_spaces_only(provider_id) ==
    replace(lower(provider_id), " ", "_")

\* provider_id.lower().replace(' ', '_').replace('-', '_')
normalize_provider_id(provider_id) ==
    replace(replace(lower(provider_id), " ", "_"), "-", "_")

\* raise ValueError(...) about one field
ValueError(name) == [kind |-> "ValueError", field |-> name]

\* __post_init__: the checks in their order, then the normalization of
\* provider_id; the result is the config or the error raised
post_init(args) ==
    IF args.provider_id = <<>> THEN ValueError("provider_id")
    ELSE IF args.class_path = "" THEN ValueError("class_path")
    ELSE IF args.provider_name = "" THEN ValueError("provider_name")
    ELSE IF args.rate_limit <= 0 THEN ValueError("rate_limit")
    ELSE IF args.timeout <= 0 THEN ValueError("timeout")
    ELSE IF args.retries < 0 THEN ValueError("retries")
    ELSE IF args.priority < 0 THEN ValueError("priority")
    ELSE [kind |-> "ProviderConfig",
          provider_id |-> normalize_provider_id(args.provider_id),
          class_path |-> args.class_path,
          provider_name |-> args.provider_name,
          rate_limit |-> args.rate_limit,
          timeout |-> args.timeout,
          retries |-> args.retries,
          priority |-> args.priority]

\* no ProviderConfig is under construction
ProviderConfigAtRest ==
    provider_config = [pc |-> "idle", args |-> DefaultConfigArgs, result |-> None]

\* ProviderConfig(...) called with any arguments
ProviderConfigInit ==
    provider_config \in [pc : {"called"}, args : ConfigArgs, result : {None}]

\* the dataclass runs __post_init__ and the call returns or raises
PostInit ==
    /\ provider_config.pc = "called"
    /\ LET result == post_init(provider_config.args)
       IN provider_config' =
              [provider_config EXCEPT
                  !.pc = IF result.kind = "ValueError" THEN "raised"
                         ELSE "constructed",
                  !.result = result]
    /\ UNCHANGED <<data_quality, page_info>>
    /\ UNCHANGED beside_values

\* --------------------------------------------- DataQuality.overall_score
\* a score is a multiple of 1 / Scale
Scale == 4

\* the scores tried, below 0 and above 1 included
Scores == (-1)..(Scale + 1)

\* the greatest common divisor of two naturals, not both 0
RECURSIVE GCD(_, _)
GCD(a, b) == IF b = 0 THEN a ELSE GCD(b, a % b)

\* the quotient n / d of an integer by a positive integer, in lowest terms
Quotient(n, d) ==
    LET g == GCD(IF n < 0 THEN -n ELSE n, d)
    IN [num |-> n \div g, den |-> d \div g]

\* the sum of the four scores, in units of 1 / Scale
score_sum(q) ==
    q.accuracy_score + q.completeness_score + q.timeliness_score
        + q.confidence_level

\* an overall score that leaves the confidence level out of the count
overall_score_of_three(q) == Quotient(score_sum(q), 3 * Scale)

\* overall_score: the sum of the four scores, divided by 4
overall_score(q) == Quotient(score_sum(q), 4 * Scale)

\* DataQuality(): every score 0.0
DefaultQuality ==
    [accuracy_score |-> 0, completeness_score |-> 0, timeliness_score |-> 0,
     confidence_level |-> 0]

\* no overall_score is being read
DataQualityAtRest ==
    data_quality = [pc |-> "idle", quality |-> DefaultQuality, overall |-> None]

\* DataQuality(...) built with any four scores
DataQualityInit ==
    data_quality \in
        [pc : {"built"},
         quality : [accuracy_score : Scores, completeness_score : Scores,
                    timeliness_score : Scores, confidence_level : Scores],
         overall : {None}]

\* the property overall_score is read
OverallScore ==
    /\ data_quality.pc = "built"
    /\ data_quality' = [data_quality EXCEPT
                           !.pc = "scored",
                           !.overall = overall_score(data_quality.quality)]
    /\ UNCHANGED <<provider_config, page_info>>
    /\ UNCHANGED beside_values

\* ------------------------------------------ ResponseBuilder.build_page_info
\* the largest page, page_size and total_count tried
MaxPage == 3

MaxPageSize == 3

MaxTotalCount == 6

\* a total_pages that counts the full pages only
build_page_info_full_pages(page, page_size, total_count) ==
    [page |-> page,
     page_size |-> page_size,
     total_count |-> total_count,
     total_pages |-> IF page_size > 0 THEN total_count \div page_size ELSE 0,
     has_next |-> page * page_size < total_count,
     has_previous |-> page > 1]

\* build_page_info; // is the floor division, as \div is
build_page_info(page, page_size, total_count) ==
    [page |-> page,
     page_size |-> page_size,
     total_count |-> total_count,
     total_pages |-> IF page_size > 0
                     THEN (total_count + page_size - 1) \div page_size
                     ELSE 0,
     has_next |-> page * page_size < total_count,
     has_previous |-> page > 1]

\* no page info is being built
PageInfoAtRest ==
    page_info = [pc |-> "idle", page |-> 1, page_size |-> MaxPageSize,
                 total_count |-> 0, result |-> None]

\* build_page_info called with any arguments
PageInfoInit ==
    page_info \in [pc : {"called"}, page : 0..MaxPage,
                   page_size : (-1)..MaxPageSize,
                   total_count : 0..MaxTotalCount, result : {None}]

\* the call returns the dict
BuildPageInfo ==
    /\ page_info.pc = "called"
    /\ page_info' = [page_info EXCEPT
                        !.pc = "returned",
                        !.result = build_page_info(page_info.page,
                                                   page_info.page_size,
                                                   page_info.total_count)]
    /\ UNCHANGED <<provider_config, data_quality>>
    /\ UNCHANGED beside_values

\* ------------------------------------------------------------ APIClient
\* ticks of the clock in one window of the rate limiter
TicksPerWindow == 2

\* the last tick of the clock
MaxTicks == 3

\* HTTP requests sent by the client
MaxSent == 3

\* the window of _apply_rate_limiting, in seconds
minute == 60

\* settings.rate_limit.requests_per_minute as a deployment sets it: the
\* smallest limit that lets a request through
requests_per_minute == 1

\* @retry(stop=stop_after_attempt(3), ...)
stop_after_attempt == 3

\* the seconds between two readings of the clock
TickSeconds == minute \div TicksPerWindow

\* the domains of the urls fetched
Domains == {"a.example", "b.example"}

\* what an HTTP request ends with: a response with a status below 400, a
\* response with a status of 400 or more, a connection error
HttpOutcomes == {"ok", "status_error", "connection_error"}

\* a fetch call that has not started
IdleApiCall ==
    [pc |-> "idle", domain |-> "none", attempt_number |-> 0,
     current_time |-> 0, wake |-> 0, requests |-> 0, result |-> None]

\* APIClient() after initialize(): a session, no timestamps
ApiAtRest ==
    /\ api_session = TRUE
    /\ api_rate_limiter = [d \in Domains |-> <<>>]
    /\ api_call = [c \in Calls |-> IdleApiCall]
    /\ sent = <<>>
    /\ loop_time = 0

\* APIClient(), with or without initialize() having been called
ApiInit ==
    /\ api_session \in BOOLEAN
    /\ api_rate_limiter = [d \in Domains |-> <<>>]
    /\ api_call = [c \in Calls |-> IdleApiCall]
    /\ sent = <<>>
    /\ loop_time = 0

\* the clock of the event loop moves on
LoopTick ==
    /\ loop_time < MaxTicks * TickSeconds
    /\ loop_time' = loop_time + TickSeconds
    /\ UNCHANGED <<api_session, api_rate_limiter, api_call, sent>>
    /\ UNCHANGED beside_api

\* _apply_rate_limiting: the timestamps of the domain less than a minute old
recent(timestamps, current_time) ==
    SelectSeq(timestamps, LAMBDA timestamp : current_time - timestamp < minute)

\* the request of call c goes out on the session
Send(c) == Append(sent, [call |-> c, domain |-> api_call'[c].domain,
                         time |-> loop_time])

\* tenacity, after the body raised: RetryError after the last attempt,
\* otherwise wait and run the body again
after_exception(rec) ==
    IF rec.attempt_number >= stop_after_attempt
    THEN [rec EXCEPT !.pc = "raised", !.result = [raised |-> "RetryError"]]
    ELSE [rec EXCEPT !.pc = "retry_wait"]

\* the body of fetch up to its first suspension: RuntimeError without a
\* session; otherwise _apply_rate_limiting drops the old timestamps of the
\* domain and, when requests_per_minute of them are left, sleeps until the
\* oldest is a minute old; else it appends current_time and the request is
\* sent
FetchBody(c, rec) ==
    IF ~api_session
    THEN /\ api_call' = [api_call EXCEPT ![c] = after_exception(rec)]
         /\ UNCHANGED <<api_rate_limiter, sent>>
    ELSE LET kept == recent(api_rate_limiter[rec.domain], loop_time)
             sleep_time == minute - (loop_time - kept[1])
         IN IF Len(kept) >= requests_per_minute /\ sleep_time > 0
            THEN /\ api_rate_limiter' =
                       [api_rate_limiter EXCEPT ![rec.domain] = kept]
                 /\ api_call' = [api_call EXCEPT ![c] =
                       [rec EXCEPT !.pc = "sleeping",
                                   !.current_time = loop_time,
                                   !.wake = loop_time + sleep_time]]
                 /\ UNCHANGED sent
            ELSE /\ api_rate_limiter' =
                       [api_rate_limiter EXCEPT ![rec.domain] =
                           Append(kept, loop_time)]
                 /\ api_call' = [api_call EXCEPT ![c] =
                       [rec EXCEPT !.pc = "requesting",
                                   !.current_time = loop_time,
                                   !.requests = @ + 1]]
                 /\ sent' = Send(c)

\* fetch(url): tenacity runs the body for the first time
ApiFetch(c, domain) ==
    /\ api_call[c].pc \in {"idle", "returned", "raised"}
    /\ Len(sent) < MaxSent
    /\ FetchBody(c, [IdleApiCall EXCEPT !.domain = domain,
                                        !.attempt_number = 1])
    /\ UNCHANGED <<api_session, loop_time>>
    /\ UNCHANGED beside_api

\* tenacity: the wait is over and the body runs again
ApiRetry(c) ==
    /\ api_call[c].pc = "retry_wait"
    /\ FetchBody(c, [api_call[c] EXCEPT !.attempt_number = @ + 1])
    /\ UNCHANGED <<api_session, loop_time>>
    /\ UNCHANGED beside_api

\* _apply_rate_limiting after asyncio.sleep(sleep_time): the time read
\* before the sleep is appended and the request is sent
ApiWake(c) ==
    /\ api_call[c].pc = "sleeping"
    /\ loop_time >= api_call[c].wake
    /\ api_rate_limiter' =
          [api_rate_limiter EXCEPT ![api_call[c].domain] =
              Append(@, api_call[c].current_time)]
    /\ api_call' = [api_call EXCEPT ![c] =
                       [@ EXCEPT !.pc = "requesting", !.requests = @ + 1]]
    /\ sent' = Send(c)
    /\ UNCHANGED <<api_session, loop_time>>
    /\ UNCHANGED beside_api

\* the body of fetch after the request: a status below 400 returns the
\* success result; a status of 400 or more raises ClientResponseError
\* inside the try, as a connection error does, and the except clause logs
\* it and returns the error result, so that tenacity sees a normal return
ApiRespond(c, outcome) ==
    /\ api_call[c].pc = "requesting"
    /\ api_call' = [api_call EXCEPT ![c] =
          [@ EXCEPT !.pc = "returned",
                    !.result = IF outcome = "ok"
                               THEN [status |-> "success"]
                               ELSE [status |-> "error"]]]
    /\ UNCHANGED <<api_session, api_rate_limiter, sent, loop_time>>
    /\ UNCHANGED beside_api

\* fetch calls on one client as time passes
ApiNext ==
    \/ LoopTick
    \/ \E c \in Calls, domain \in Domains : ApiFetch(c, domain)
    \/ \E c \in Calls : ApiRetry(c)
    \/ \E c \in Calls : ApiWake(c)
    \/ \E c \in Calls, outcome \in HttpOutcomes : ApiRespond(c, outcome)

\* no value is being built
ValuesAtRest == ProviderConfigAtRest /\ DataQualityAtRest /\ PageInfoAtRest

\* the service has not started and its wrappers have served no call
ServiceAtRest ==
    /\ LimiterAtRest /\ CacheAtRest /\ BulkAtRest /\ MicroAtRest
    /\ ValuesAtRest /\ ApiAtRest

\* calls of the clients on the rate-limited method as time passes
RateLimitNext ==
    \/ Tick
    \/ \E client \in Clients : RateLimitedCall(client)

\* ------------------------------------------------ properties, registry
\* C12: every ProviderManager() call returns the instance the module
\* created, and a construction leaves providers, the category index and
\* configs as they were.
C12_Singleton ==
    [][/\ \A i \in 1..Len(handed_out') :
             handed_out'[i].instance = ModuleInstance
       /\ handed_out' # handed_out =>
             /\ manager_instance' = manager_instance
             /\ UNCHANGED <<providers, categories, configs>>]_vars

\* a construction call was made after a provider had been registered, and
\* the provider is still registered
C12_Witness ==
    /\ Len(handed_out) > 1
    /\ handed_out[Len(handed_out)].after_registration
    /\ Registered(providers) # {}

\* C13: while a registration register_provider(id, p, categories) stands,
\* get_provider(id) is p and get_providers_by_category(c) contains p for
\* every c of the call, whether or not configs holds the id.
C13_RegisteredIsListed ==
    last_registered # None =>
        /\ get_provider(last_registered.id) = last_registered.provider
        /\ \A i \in 1..Len(last_registered.categories) :
              LET listed == get_providers_by_category(last_registered.categories[i])
              IN \E j \in 1..Len(listed) : listed[j] = last_registered.provider

\* the ids of the category list that have an instance and an enabled config
EnabledFor(cat) ==
    {id \in IdSet : /\ \E j \in 1..Len(categories[cat]) : categories[cat][j] = id
                    /\ providers[id] # None
                    /\ configs[id].enabled}

C15_NoDuplicateIds ==
    \A cat \in Categories :
        \A i, j \in 1..Len(categories[cat]) :
            i # j => categories[cat][i] # categories[cat][j]

\* the latest call registered an id again for a category that listed it
\* already
C15_Witness ==
    /\ last_registered # None
    /\ last_registered.repeated
    /\ registrations > 1

\* C16: close_all never raises; in the step it returns it has visited every
\* provider that was registered when it began, providers and the category
\* index are empty, the lock is free and configs is unchanged.
C16_CloseAllClosesEverything ==
    [][/\ closer'.pc # "raised"
       /\ (closer.pc # "returned" /\ closer'.pc = "returned") =>
             /\ Visited(closer') = closer'.snapshot
             /\ Registered(providers') = {}
             /\ \A cat \in Categories : categories'[cat] = <<>>
             /\ lock' = None
             /\ configs' = configs]_vars

\* close_all has returned after a close hook raised and the hook of a
\* provider visited later was called and returned
C16_Witness ==
    /\ closer.pc = "returned"
    /\ \E i, j \in 1..Len(closer.visited) :
          /\ i < j
          /\ closer.visited[i].outcome = "raises"
          /\ closer.visited[j].outcome = "closed"

\* the entry health_check owes a provider, by what its probe did
ExpectedEntry(outcome) ==
    [status |-> IF outcome \in {"no_probe", "True", "dict"}
                THEN "healthy" ELSE "unhealthy",
     details |-> CASE outcome = "raises" -> "error"
                   [] outcome = "no_probe" -> "message"
                   [] outcome \in {"dict", "empty_dict"} -> "result"
                   [] OTHER -> "empty"]

\* C17: health_check does not raise, and in the step it returns its result
\* has an entry for exactly the registered providers, each entry the one
\* the provider's probe calls for.
C17_HealthCheckCoversAll ==
    [][/\ checker'.pc # "raised"
       /\ (checker.pc # "returned" /\ checker'.pc = "returned") =>
             /\ {id \in AllIds : checker'.results[id] # None}
                    = Registered(providers')
             /\ Len(checker'.probes) = Cardinality(Registered(providers'))
             /\ \A i \in 1..Len(checker'.probes) :
                   checker'.results[checker'.probes[i].id]
                       = ExpectedEntry(checker'.probes[i].outcome)]_vars

\* health_check has returned after a probe raised and a provider probed
\* later was found healthy
C17_Witness ==
    /\ checker.pc = "returned"
    /\ \E i, j \in 1..Len(checker.probes) :
          /\ i < j
          /\ checker.probes[i].outcome = "raises"
          /\ checker.results[checker.probes[i].id].status = "unhealthy"
          /\ checker.results[checker.probes[j].id].status = "healthy"

\* C18: get_provider_status reports healthy exactly when a provider
\* instance is registered, and unhealthy otherwise.
C18_HealthyIffRegistered ==
    /\ get_provider_status.health \in {"healthy", "unhealthy"}
    /\ get_provider_status.health = "healthy" <=> Registered(providers) # {}
    /\ get_provider_status.total_providers = Cardinality(Registered(providers))

\* close_all has emptied a registry that held providers, enabled configs
\* remain, and the status is unhealthy
C18_Witness ==
    /\ closer.pc = "returned"
    /\ closer.snapshot # {}
    /\ Registered(providers) = {}
    /\ \E id \in IdSet : configs[id].enabled
    /\ get_provider_status.health = "unhealthy"

\* C25: register_provider and close_all are serialized.  While a call holds
\* the lock the two maps change only in the step that releases it, so a
\* registration takes effect before close_all begins or after it has ended;
\* whenever the lock is free every id listed in the category index is a key
\* of providers; and in the step close_all returns, no provider registered
\* before is left in either map.
C25_MutationsSerialized ==
    [][/\ (lock # None /\ lock' # None) =>
             /\ providers' = providers
             /\ categories' = categories
             /\ registrations' = registrations
       /\ lock' = None =>
             \A cat \in Categories : \A i \in 1..Len(categories'[cat]) :
                 categories'[cat][i] \in Registered(providers')
       /\ (closer.pc = "closing" /\ closer'.pc = "returned") =>
             \A id \in closer'.snapshot :
                 /\ providers'[id] = None
                 /\ \A cat \in Categories : \A i \in 1..Len(categories'[cat]) :
                        categories'[cat][i] # id]_vars

\* two providers were registered, then close_all ran through both and
\* returned
C25_Witness ==
    /\ closer.pc = "returned"
    /\ registrations = MaxRegistrations
    /\ Cardinality(closer.snapshot) = 2
    /\ Visited(closer) = closer.snapshot

\* C32: however initialize_all calls overlap, the class of each provider
\* is instantiated at most once, so the instance held in providers for an
\* id is the only one ever created for it.
C32_InstantiatedOnce ==
    \A id \in IdSet :
        /\ instantiated[id] <= 1
        /\ providers[id] # None => providers[id].n = instantiated[id]

\* the providers health_check has written an entry for
Reported(rec) == {id \in AllIds : rec.results[id] # None}

\* C33: health_check never raises, whatever register_provider and close_all
\* do while one of its probes is awaited, and the map it returns has an
\* entry for each provider that was registered when it started
C33_HealthCheckNeverRaises ==
    /\ checker.pc # "raised"
    /\ checker.pc = "returned" => Cardinality(Reported(checker)) >= checker.size

\* ---------------------------------------------- properties, middleware
\* the status the mapping assigns to an exception class
ExpectedStatus(kind) ==
    CASE kind \in {"ValueError", "UnicodeDecodeError"} -> "INVALID_ARGUMENT"
      [] kind = "PermissionError" -> "PERMISSION_DENIED"
      [] kind = "FileNotFoundError" -> "NOT_FOUND"
      [] kind = "TimeoutError" -> "DEADLINE_EXCEEDED"
      [] kind \in {"ConnectionError", "ConnectionResetError"} -> "UNAVAILABLE"
      [] OTHER -> "INTERNAL"

\* C19: a request that went through grpc_error_handler ends without an
\* exception; when its handler raised, the reply is None and the context
\* got exactly one status, the one the mapping assigns to the exception,
\* with the exception's text in the details; when its handler returned,
\* the reply is the handler's result and no status was set.
C19_ErrorsBecomeStatus ==
    \A r \in Calls :
        request[r].pc = "done" =>
            /\ request[r].escaped = None
            /\ IF request[r].handler.raised = None
               THEN /\ request[r].returned = request[r].handler.result
                    /\ request[r].context = <<>>
               ELSE /\ request[r].returned = None
                    /\ Len(request[r].context) = 1
                    /\ request[r].context[1].code =
                          ExpectedStatus(request[r].handler.raised.kind)
                    /\ request[r].context[1].text = request[r].handler.raised

\* one request ended with UNAVAILABLE for a ConnectionResetError, another
\* with INTERNAL for a KeyError
C19_Witness ==
    \E r, q \in Calls :
        /\ request[r].pc = "done"
        /\ request[r].handler.raised # None
        /\ request[r].handler.raised.kind = "ConnectionResetError"
        /\ request[r].context[1].code = "UNAVAILABLE"
        /\ request[q].pc = "done"
        /\ request[q].handler.raised # None
        /\ request[q].handler.raised.kind = "KeyError"
        /\ request[q].context[1].code = "INTERNAL"

\* the get_data call behind the request made every attempt and raised the
\* exception of the last one
RetriesExhausted(r) ==
    /\ call[r].pc = "raised"
    /\ call[r].fetches = config_retries + 1
    /\ call[r].raised = call[r].fetch_raised

\* C20: when a GetHistoricalData request ends because get_data exhausted
\* its retries, the method's count and errors and the global request_count
\* and error_count each grow by exactly 1.
C20_FailureRecordedOnce ==
    [][\A r \in Calls :
          (/\ request[r].pc = "handling"
           /\ request'[r].pc = "done"
           /\ request[r].method = "GetHistoricalData"
           /\ get_provider(request[r].provider) # None
           /\ RetriesExhausted(r)) =>
              LET before == metrics.method_stats["GetHistoricalData"]
                  after == metrics'.method_stats["GetHistoricalData"]
              IN /\ after.count = before.count + 1
                 /\ after.errors = before.errors + 1
                 /\ metrics'.request_count = metrics.request_count + 1
                 /\ metrics'.error_count = metrics.error_count + 1]_vars

\* C30: when a request under the production stack ends whose handler
\* raised, it has been recorded as a failed request and not as a successful
\* one: the method's errors have grown, and the number of its requests
\* recorded as successful (count less errors) is what it was.
C30_FailureNotRecordedAsSuccess ==
    [][\A r \in Calls :
          (/\ request[r].pc = "handling"
           /\ request'[r].pc = "done"
           /\ request[r].method = "production_method"
           /\ request'[r].handler.raised # None) =>
              LET before == metrics.method_stats["production_method"]
                  after == metrics'.method_stats["production_method"]
              IN /\ after.errors > before.errors
                 /\ after.count - after.errors = before.count - before.errors
                 /\ metrics'.request_count - metrics'.error_count =
                        metrics.request_count - metrics.error_count]_vars

\* the get_data calls that have gone past the rate-limit step and called
\* fetch_data; no time passes between the steps of the requests, so all of
\* them fall into one minute
FetchPipelinesStarted == {c \in Calls : call[c].fetches > 0}

\* C31: a provider loaded by the manager starts no more than
\* config.rate_limit fetch pipelines within one minute; a call beyond the
\* limit stays at the rate-limit step.
C31_RateLimitEnforced ==
    Cardinality(FetchPipelinesStarted) <= config_rate_limit

\* the sum of f over the set S
RECURSIVE SumOver(_, _)
SumOver(S, f) ==
    IF S = {} THEN 0
    ELSE LET x == CHOOSE y \in S : TRUE
         IN f[x] + SumOver(S \ {x}, f)

\* request_count is the number of stored latencies and the sum of the
\* per-method counts, error_count the sum of the per-method errors and at
\* most request_count, the error-kind counts sum to at most error_count
MetricsConsistent(mt) ==
    /\ mt.request_count = Len(mt.response_times)
    /\ mt.request_count = SumOver(Methods, [m \in Methods |-> mt.method_stats[m].count])
    /\ mt.error_count = SumOver(Methods, [m \in Methods |-> mt.method_stats[m].errors])
    /\ mt.error_count <= mt.request_count
    /\ SumOver(StatusCodes, mt.error_types) <= mt.error_count

\* C21: after every record_request and reset the counts of ServiceMetrics
\* agree with each other, and right after a reset every counter is 0 and
\* the list and the maps are empty.
C21_MetricsConsistent ==
    [][/\ MetricsConsistent(metrics')
       /\ metrics'.request_count < metrics.request_count =>
             /\ metrics'.request_count = 0
             /\ metrics'.error_count = 0
             /\ metrics'.response_times = <<>>
             /\ \A st \in StatusCodes : metrics'.error_types[st] = 0
             /\ \A m \in Methods : metrics'.method_stats[m].count = 0]_vars

\* requests of both methods were recorded, one failed with an error kind
\* and one failed without
C21_Witness ==
    /\ Len(metrics.response_times) = 3
    /\ metrics.request_count = 3
    /\ metrics.error_count = 2
    /\ SumOver(StatusCodes, metrics.error_types) = 1
    /\ \A m \in Methods : metrics.method_stats[m].count > 0

\* ------------------------------------------- properties, rate limiting
\* the calls the client made earlier in the window of the i-th call
EarlierInWindow(i) ==
    {j \in 1..(i - 1) :
        /\ limited[j].client = limited[i].client
        /\ limited[j].time \div WindowSeconds = limited[i].time \div WindowSeconds}

\* C22: of the calls a client makes inside one window the first
\* max_requests reach the handler and every later one is rejected with
\* RESOURCE_EXHAUSTED and None without the handler being invoked; calls in
\* another window or of another client do not count.
C22_RejectsBeyondMax ==
    \A i \in 1..Len(limited) :
        IF Cardinality(EarlierInWindow(i)) < max_requests
        THEN /\ limited[i].invoked
             /\ limited[i].context = <<>>
        ELSE /\ ~limited[i].invoked
             /\ limited[i].result = None
             /\ limited[i].context = <<[code |-> "RESOURCE_EXHAUSTED"]>>

\* a client made max_requests + 1 calls in one window, the last of which
\* was rejected, and in a later window its max_requests-th call of that
\* window reached the handler
C22_Witness ==
    /\ max_requests = MaxRequests
    /\ \E i, j \in 1..Len(limited) :
          /\ i < j
          /\ limited[i].client = limited[j].client
          /\ Cardinality(EarlierInWindow(i)) = max_requests
          /\ ~limited[i].invoked
          /\ limited[j].time \div WindowSeconds > limited[i].time \div WindowSeconds
          /\ limited[j].invoked
          /\ Cardinality(EarlierInWindow(j)) = max_requests - 1

\* the (client, window) keys the count map holds
StoredKeys(counts) ==
    {k \in Clients \X (0..MaxTime) : counts[k[1]][k[2]] # 0}

\* C35: after every call through the wrapper the count map holds only keys
\* of the window the call was made in, every stored count is between 1 and
\* max_requests, the count of every other client in that window is what it
\* was before the call, and a call is rejected only when the caller's own
\* count has reached max_requests.
C35_CountsPerClientAndWindow ==
    [][limited' # limited =>
          LET r == limited'[Len(limited')]
              start == window_start(r.time)
          IN /\ \A k \in StoredKeys(request_counts') :
                   /\ k[2] = start
                   /\ request_counts'[k[1]][k[2]] \in 1..max_requests
             /\ \A other \in Clients \ {r.client} :
                   request_counts'[other][start] = request_counts[other][start]
             /\ ~r.invoked =>
                   /\ request_counts[r.client][start] >= max_requests
                   /\ request_counts'[r.client][start] =
                         request_counts[r.client][start]]_vars

\* after a call in the first window, one client was rejected at the limit in
\* a later window and a call of the other client in that window then
\* reached the handler; the map holds no key of the first window
C35_Witness ==
    /\ max_requests = MaxRequests
    /\ \E i, j, k \in 1..Len(limited) :
          /\ i < j /\ j < k
          /\ limited[i].invoked
          /\ window_start(limited[i].time) < window_start(limited[j].time)
          /\ ~limited[j].invoked
          /\ limited[k].client # limited[j].client
          /\ window_start(limited[k].time) = window_start(limited[j].time)
          /\ limited[k].invoked
          /\ StoredKeys(request_counts) =
                {<<limited[j].client, window_start(limited[j].time)>>,
                 <<limited[k].client, window_start(limited[k].time)>>}
          /\ request_counts[limited[j].client][window_start(now)] = max_requests

\* ------------------------------------------- properties, response cache
\* the step is the lookup of a new call c on the cached method
LookupBy(c) ==
    /\ cached_call[c].pc = "idle"
    /\ cached_call'[c].number # cached_call[c].number

\* the cache holds an entry for the key whose time is less than
\* ttl_seconds back
FreshEntry(key) ==
    /\ response_cache[key] # None
    /\ now - response_cache[key].cached_time < ttl_seconds

FailedBy(c) ==
    /\ cached_call[c].pc = "handler"
    /\ cached_call'[c].pc = "idle"
    /\ Answer(cached_call'[c].returned) = None

\* C36: the response cache stores only successful results. A call whose
\* handler raises or returns None leaves the cache as it was, so it creates
\* no entry for its key and a following request of the key that finds none
\* goes to the handler; every entry holds the result of a handler call that
\* succeeded, and a call served from the cache is never answered None.
C36_OnlySuccessCached ==
    [][/\ \A c \in Calls :
             FailedBy(c) =>
                 /\ response_cache' = response_cache
                 /\ \A key \in CacheKeys :
                       response_cache'[key] # None =>
                           response_cache'[key].result # [value |-> cached_call[c].number]
       /\ \A key \in CacheKeys :
             response_cache'[key] # None =>
                 /\ response_cache'[key].result # None
                 /\ response_cache'[key].result # [raised |-> TRUE]
       /\ \A c \in Calls :
             (LookupBy(c) /\ cached_call'[c].pc = "idle") =>
                 Answer(cached_call'[c].returned) # None]_vars

\* the first call of a key raised in its handler, the cache holds nothing
\* for the key, and the second call of the key is in the handler
C36_Witness ==
    \E c, d \in Calls :
        /\ cached_call[c].pc = "idle"
        /\ cached_call[c].number = 1
        /\ cached_call[c].returned = [raised |-> TRUE]
        /\ Answer(cached_call[c].returned) = None
        /\ cached_call[d].pc = "handler"
        /\ cached_call[d].number = 2
        /\ cached_call[d].key = cached_call[c].key
        /\ cached_call[d].current_time > cached_call[c].current_time
        /\ response_cache[cached_call[c].key] = None

\* ------------------------------------------------ properties, bulk fetch

\* the fetches holding a slot of the semaphore
InFlight == Cardinality({i \in 1..MaxFanOut : fetches[i] = "running"})

\* the fetch of request i has started
Ran(i) == fetches[i] \in {"running"} \cup SingleOutcomes

\* C24, as stated: for a cap max_concurrent that a semaphore can be built
\* with, at every moment at most max_concurrent fetches are in flight, and
\* every one of the N requests runs: a call that has returned has run them
\* all.
C24_EveryRequestRuns ==
    /\ bulk.max_concurrent >= 0 => InFlight <= bulk.max_concurrent
    /\ bulk.pc = "returned" => \A i \in 1..bulk.n : Ran(i)

\* C24, amended: for a cap max_concurrent that a semaphore can be built
\* with, at every moment at most max_concurrent fetches are in flight.  With max_concurrent at least 1, a call that fans out with gather
\* eventually runs every one of its requests, whatever the earlier fetches
\* return or raise; a fetch_bulk_data call with stop_on_error runs the
\* requests one at a time, in order, and when it ends it has run exactly the
\* requests up to the first whose fetch returned an error or raised.
C24_CapAndProgress ==
    /\ [](bulk.max_concurrent >= 0 => InFlight <= bulk.max_concurrent)
    /\ [](bulk.stop_on_error => InFlight <= 1)
    /\ (bulk.pc = "gather" /\ bulk.max_concurrent >= 1)
           ~> (\A i \in 1..bulk.n : Ran(i))
    /\ [](bulk.pc \in {"returned", "raised"} /\ bulk.stop_on_error
              /\ bulk.max_concurrent >= 1
            => \A i \in 1..bulk.n :
                   Ran(i) <=> \A j \in 1..(i - 1) : fetches[j] = "success")

\* three requests under a cap of two: one fetch has raised, and the request
\* that waited for its slot is now in flight beside the other
C24_Witness ==
    /\ bulk.pc = "gather"
    /\ bulk.n = 3
    /\ bulk.max_concurrent = 2
    /\ fetches[1] = "raised"
    /\ fetches[2] = "running"
    /\ fetches[3] = "running"

\* C37: fetch_bulk_data with stop_on_error processes the requests one at a
\* time in request order and stops at the first result whose status is
\* error: a request is issued only after every request before it returned
\* success, at most one fetch is in flight, the results are those of a
\* prefix of the requests in order, only the last of them can be an error,
\* and the call returns after the last request or the first error, the
\* requests behind the results never having been issued.
C37_StopsAtFirstError ==
    bulk.stop_on_error =>
        /\ InFlight <= 1
        /\ \A i \in 1..bulk.n :
              Ran(i) => \A j \in 1..(i - 1) : fetches[j] = "success"
        /\ Len(bulk.results) <= bulk.n
        /\ \A i \in 1..Len(bulk.results) :
              /\ bulk.results[i] = fetches[i]
              /\ i < Len(bulk.results) => bulk.results[i] = "success"
        /\ bulk.pc = "returned" =>
              /\ \/ Len(bulk.results) = bulk.n
                 \/ bulk.results[Len(bulk.results)] = "error"
              /\ \A i \in (Len(bulk.results) + 1)..bulk.n :
                    fetches[i] = "pending"

\* of three requests the second returned an error: the call has returned
\* the two results and the third request was never issued
C37_Witness ==
    /\ bulk.stop_on_error
    /\ bulk.pc = "returned"
    /\ bulk.n = 3
    /\ bulk.results = <<"success", "error">>
    /\ fetches[3] = "pending"

\* ------------------------------------------------- properties, shutdown

\* C26: when the shutdown sequence has completed, the close hook of every
\* provider that initialize_all registered has been invoked and the registry
\* holds no provider.
C26_ProvidersClosedAtShutdown ==
    (micro.pc = "shut_down" /\ micro.stopped) =>
        /\ \A t \in Tasks : task[t].loaded \subseteq Visited(closer)
        /\ Registered(providers) = {}
        /\ \A cat \in Categories : categories[cat] = <<>>

\* ------------------------------------------- properties, ProviderConfig

\* the canonical form of a provider_id: no upper-case letter, space or
\* hyphen, and normalizing it again changes nothing
IsCanonical(provider_id) ==
    /\ \A i \in 1..Len(provider_id) : provider_id[i] \notin {"A", " ", "-"}
    /\ normalize_provider_id(provider_id) = provider_id

\* C27, as stated: an accepted ProviderConfig has a canonical provider_id and
\* strictly positive rate_limit, timeout and retries, and a construction
\* with one of the three not strictly positive raises.
C27_LimitsStrictlyPositive ==
    /\ provider_config.pc = "constructed" =>
          /\ IsCanonical(provider_config.result.provider_id)
          /\ provider_config.result.rate_limit > 0
          /\ provider_config.result.timeout > 0
          /\ provider_config.result.retries > 0
    /\ (/\ provider_config.pc \in {"constructed", "raised"}
        /\ \/ provider_config.args.rate_limit <= 0
           \/ provider_config.args.timeout <= 0
           \/ provider_config.args.retries <= 0)
          => provider_config.pc = "raised"

\* C27, amended: an accepted ProviderConfig has a canonical provider_id,
\* strictly positive rate_limit and timeout and a retries that is not
\* negative; a construction with rate_limit or timeout not strictly positive
\* or with a negative retries raises ValueError and yields no config.
C27_LimitsInRange ==
    /\ provider_config.pc = "constructed" =>
          /\ IsCanonical(provider_config.result.provider_id)
          /\ provider_config.result.rate_limit > 0
          /\ provider_config.result.timeout > 0
          /\ provider_config.result.retries >= 0
    /\ (/\ provider_config.pc \in {"constructed", "raised"}
        /\ \/ provider_config.args.rate_limit <= 0
           \/ provider_config.args.timeout <= 0
           \/ provider_config.args.retries < 0)
          => /\ provider_config.pc = "raised"
             /\ provider_config.result.kind = "ValueError"

\* a config was accepted whose provider_id came with an upper-case letter
\* and a hyphen, and whose retries is 0
C27_Witness ==
    /\ provider_config.pc = "constructed"
    /\ provider_config.args.provider_id = <<"A", "-">>
    /\ provider_config.result.provider_id = <<"a", "_">>
    /\ provider_config.args.retries = 0

\* --------------------------------------------- properties, DataQuality

\* every score lies in [0, 1]
ScoresInRange(q) ==
    /\ q.accuracy_score \in 0..Scale
    /\ q.completeness_score \in 0..Scale
    /\ q.timeliness_score \in 0..Scale
    /\ q.confidence_level \in 0..Scale

\* C28: for scores in [0, 1], 4 * overall_score equals the sum of the four
\* scores, overall_score lies in [0, 1], and it is 0 when all four are 0.
C28_OverallIsMean ==
    (data_quality.pc = "scored" /\ ScoresInRange(data_quality.quality)) =>
        /\ 4 * data_quality.overall.num * Scale =
               score_sum(data_quality.quality) * data_quality.overall.den
        /\ 0 <= data_quality.overall.num
        /\ data_quality.overall.num <= data_quality.overall.den
        /\ score_sum(data_quality.quality) = 0 => data_quality.overall.num = 0

\* the overall score of four different scores in [0, 1], the largest and
\* the smallest among them, has been read
C28_Witness ==
    /\ data_quality.pc = "scored"
    /\ data_quality.quality =
          [accuracy_score |-> Scale, completeness_score |-> 0,
           timeliness_score |-> 1, confidence_level |-> 2]
    /\ data_quality.overall.den > 1

\* ------------------------------------------------ properties, page info

\* the least number of pages of page_size that hold total_count items
Ceiling(total_count, page_size) ==
    CHOOSE q \in 0..total_count :
        /\ q * page_size >= total_count
        /\ \A r \in 0..total_count : r * page_size >= total_count => q <= r

\* C29: total_pages is the ceiling of total_count / page_size when page_size
\* is positive and 0 otherwise, has_next holds exactly when page * page_size
\* < total_count, and has_previous exactly when page > 1.
C29_PageInfo ==
    page_info.pc = "returned" =>
        /\ page_info.result.total_pages =
              IF page_info.page_size > 0
              THEN Ceiling(page_info.total_count, page_info.page_size)
              ELSE 0
        /\ page_info.result.has_next <=>
              page_info.page * page_info.page_size < page_info.total_count
        /\ page_info.result.has_previous <=> page_info.page > 1

\* the last page is partly filled: five items on pages of three, asked for
\* page two
C29_Witness ==
    /\ page_info.pc = "returned"
    /\ page_info.total_count = 5
    /\ page_info.page_size = 3
    /\ page_info.page = 2
    /\ page_info.result.total_pages = 2
    /\ ~page_info.result.has_next
    /\ page_info.result.has_previous

\* ------------------------------------------------- properties, APIClient
\* C38: when an HTTP request of an initialized client fails, fetch sends it
\* again: an error result is returned only after stop_after_attempt
\* requests, and never after more.
C38_FailedRequestRetried ==
    \A c \in Calls :
        /\ api_call[c].requests <= stop_after_attempt
        /\ (api_call[c].pc = "returned" /\ api_call[c].result = [status |-> "error"])
              => api_call[c].requests = stop_after_attempt

\* the requests sent to the domain in the minute that ends at time t
SentInWindow(domain, t) ==
    {i \in 1..Len(sent) :
        /\ sent[i].domain = domain
        /\ sent[i].time <= t
        /\ t - sent[i].time < minute}

\* C39: for every domain at most requests_per_minute requests are sent
\* within any window of a minute, whatever the interleaving of the fetch
\* calls, and a call waits only for requests to its own domain.
C39_PerDomainLimit ==
    /\ \A i \in 1..Len(sent) :
          Cardinality(SentInWindow(sent[i].domain, sent[i].time))
              <= requests_per_minute
    /\ \A c \in Calls :
          api_call[c].pc = "sleeping" =>
              \E i \in 1..Len(sent) : sent[i].domain = api_call[c].domain

\* ---------------------------------------------------------- specifications
\* get_data calls on one provider
Init == ProviderInit /\ ManagerAtRest /\ RegistryAtRest /\ MiddlewareAtRest /\ ServiceAtRest

Next == ProviderNext

Spec == Init /\ [][Next]_vars

\* get_data calls, every call that can take a step eventually taking it
FairSpec == Init /\ [][Next]_vars /\ \A c \in Calls : WF_vars(CallStep(c))

\* initialize_all calls on the manager
ManagerSpecInit ==
    ManagerInit /\ ProviderAtRest /\ RegistryAtRest /\ MiddlewareAtRest /\ ServiceAtRest

SpecManager == ManagerSpecInit /\ [][ManagerNext]_vars

\* register_provider calls from outside and the queries on the registry
RegistryInit ==
    ManagerInit /\ ProviderAtRest /\ RegistryAtRest /\ MiddlewareAtRest /\ ServiceAtRest

SpecRegistry == RegistryInit /\ [][RegistryNext]_vars

\* constructions, registrations, close_all and health_check calls
LifecycleInit ==
    ManagerAtRest /\ ProviderAtRest /\ RegistryAtRest /\ MiddlewareAtRest /\ ServiceAtRest

SpecLifecycle == LifecycleInit /\ [][LifecycleNext]_vars

\* the same calls, health_check overlapping the calls that change the
\* registry
OverlapInit ==
    ManagerAtRest /\ ProviderAtRest /\ RegistryAtRest /\ MiddlewareAtRest /\ ServiceAtRest

SpecOverlap == OverlapInit /\ [][OverlapNext]_vars

\* requests through the middleware, answered by get_data calls
MiddlewareInit ==
    ProviderPlain /\ ManagerLoaded /\ RegistryAtRest /\ MiddlewareAtRest /\ ServiceAtRest

SpecMiddleware == MiddlewareInit /\ [][MiddlewareNext]_vars

\* record_request and reset calls on the process-wide ServiceMetrics
MetricsInit ==
    ProviderAtRest /\ ManagerAtRest /\ RegistryAtRest /\ MiddlewareAtRest /\ ServiceAtRest

SpecMetrics == MetricsInit /\ [][MetricsNext]_vars

\* calls on a method wrapped by grpc_rate_limit
RateLimitInit ==
    /\ ProviderAtRest /\ ManagerAtRest /\ RegistryAtRest /\ MiddlewareAtRest
    /\ LimiterInit /\ CacheAtRest /\ BulkAtRest /\ MicroAtRest /\ ValuesAtRest
    /\ ApiAtRest

SpecRateLimit == RateLimitInit /\ [][RateLimitNext]_vars

\* calls on a method wrapped by grpc_cache_response
CacheSpecInit ==
    /\ ProviderAtRest /\ ManagerAtRest /\ RegistryAtRest /\ MiddlewareAtRest
    /\ LimiterAtRest /\ CacheInit /\ BulkAtRest /\ MicroAtRest /\ ValuesAtRest
    /\ ApiAtRest

SpecCache == CacheSpecInit /\ [][CacheNext]_vars

\* one bulk call; the event loop runs every task that is ready, and every
\* fetch ends (with a response, an error or a timeout)
BulkInit ==
    /\ ProviderAtRest /\ ManagerAtRest /\ RegistryAtRest /\ MiddlewareAtRest
    /\ ServiceAtRest

SpecBulk ==
    /\ BulkInit
    /\ [][BulkNext]_vars
    /\ \A i \in 1..MaxFanOut :
           /\ WF_vars(Acquire(i))
           /\ WF_vars(\E outcome \in SingleOutcomes : FetchSingle(i, outcome))
    /\ WF_vars(GatherReturn)

\* the service from construction through initialize, start and shutdown
MicroInit ==
    /\ ManagerInit /\ ProviderAtRest /\ RegistryAtRest /\ MiddlewareAtRest
    /\ ServiceAtRest

SpecMicro == MicroInit /\ [][MicroNext]_vars

\* the other subsystems at rest while one value is built
RestInit ==
    /\ ProviderAtRest /\ ManagerAtRest /\ RegistryAtRest /\ MiddlewareAtRest
    /\ LimiterAtRest /\ CacheAtRest /\ BulkAtRest /\ MicroAtRest /\ ApiAtRest

\* ProviderConfig(...) with any arguments
ProviderConfigSpecInit ==
    RestInit /\ ProviderConfigInit /\ DataQualityAtRest /\ PageInfoAtRest

SpecProviderConfig == ProviderConfigSpecInit /\ [][PostInit]_vars

\* overall_score of any DataQuality
DataQualitySpecInit ==
    RestInit /\ ProviderConfigAtRest /\ DataQualityInit /\ PageInfoAtRest

SpecDataQuality == DataQualitySpecInit /\ [][OverallScore]_vars

\* build_page_info with any arguments
PageInfoSpecInit ==
    RestInit /\ ProviderConfigAtRest /\ DataQualityAtRest /\ PageInfoInit

SpecPageInfo == PageInfoSpecInit /\ [][BuildPageInfo]_vars

\* fetch calls on one APIClient
ApiSpecInit ==
    /\ ProviderAtRest /\ ManagerAtRest /\ RegistryAtRest /\ MiddlewareAtRest
    /\ LimiterAtRest /\ CacheAtRest /\ BulkAtRest /\ MicroAtRest /\ ValuesAtRest
    /\ ApiInit

SpecApiClient == ApiSpecInit /\ [][ApiNext]_vars

====
